---- MODULE Spec2Model ----
(***************************************************************************)
(* Model of the cvagent repository's pptxextract function                  *)
(* (src/pptxextract/__init__.py): the HTTP handler main, parse_pptx_bytes  *)
(* and the helpers it calls.                                               *)
(*                                                                         *)
(* An optional value (Python's None or a value) is a sequence of length 0  *)
(* or 1.  An XML attribute is a record [k, v]: k = "int" when int() parses *)
(* it (then v is its value), "nan" when it is present but not a number,    *)
(* "absent" when the attribute is missing.                                 *)
(***************************************************************************)
EXTENDS Integers, Sequences, FiniteSets, TLC

VARIABLES
    pc,           \* position of the handler: idle, downloaded, opened, assembled, raised, done
    pkg,          \* the bytes downloaded from ppt_blob_sas, as the package they hold (None before)
    slide_paths,  \* parse_pptx_bytes: the sorted slide part names
    slides_meta,  \* parse_pptx_bytes: slides_meta
    all_blocks,   \* parse_pptx_bytes: all_blocks
    raised,       \* the exception that left parse_pptx_bytes, or "none"
    parsed,       \* the value parse_pptx_bytes returned (None until it returns)
    response,     \* the HttpResponse of main (None until it answers)
    visits,       \* history: per parsed slide, the iterations of its shape-tree walk
    emu_a,        \* unit conversion: first input
    emu_b,        \* unit conversion: second input
    px_a,         \* unit conversion: emu_to_px(emu_a)
    px_b,         \* unit conversion: emu_to_px(emu_b)
    first,        \* history: how an earlier request with the same bytes ended (None without one)
    ui_pc,        \* serverui main: idle, joined, done
    ui_rel,       \* serverui main: rel, the route parameter once completed (None before)
    ui_files,     \* serverui: the regular files of the file system
    ui_path,      \* serverui main: file_path (None before _safe_join returns)
    ui_response,  \* serverui main: the HttpResponse (None until it answers)
    ag_pc,        \* cvagent main: idle, received, uploaded, extracted, done
    ag_req,       \* cvagent main: the request (None before)
    ag_calls,     \* history: the steps cvagent has attempted, in order
    ag_sas,       \* cvagent main: sas_url (None until the upload returns it)
    ag_r1,        \* cvagent main: what _post_json gave for the extractor (None before)
    ag_r2,        \* cvagent main: what _post_json gave for the normalizer (None before)
    ag_response,  \* cvagent main: the HttpResponse (None until it answers)
    pdf_pc,       \* _html_to_pdf_bytes: idle, called, ensure, retry, done
    pdf_env,      \* PLAYWRIGHT_BROWSERS_PATH when _html_to_pdf_bytes is called
    pdf_log,      \* history: the renderings and installations attempted and how each ended
    pdf_result    \* what _html_to_pdf_bytes returns ("pdf") or raises (None before)

\* the variables of pptxextract
pptxVars == <<pc, pkg, slide_paths, slides_meta, all_blocks, raised, parsed, response, visits,
              emu_a, emu_b, px_a, px_b, first>>

\* the variables of serverui
uiVars == <<ui_pc, ui_rel, ui_files, ui_path, ui_response>>

\* the variables of cvagent
agentVars == <<ag_pc, ag_req, ag_calls, ag_sas, ag_r1, ag_r2, ag_response>>

\* the variables of renderpdf_html
pdfVars == <<pdf_pc, pdf_env, pdf_log, pdf_result>>

\* the variables of the functions other than pptxextract
sideVars == <<uiVars, agentVars, pdfVars>>

vars == <<pc, pkg, slide_paths, slides_meta, all_blocks, raised, parsed, response, visits,
          emu_a, emu_b, px_a, px_b, first, sideVars>>

-----------------------------------------------------------------------------
(* Bounds of the model *)

\* a package holds at most MaxPartNo slide parts, numbered 1..MaxPartNo-1 and 10
MaxPartNo == 3
\* a slide's shape tree holds at most MaxNodes shapes (groups included)
MaxNodes == 3
\* unit-conversion inputs range over -MaxEmuK .. MaxEmuK whole pixels, plus fractions
MaxEmuK == 2
\* the depth of nested walk_tree calls the interpreter's stack allows (its
\* recursion limit, scaled down)
StackLimit == 4

-----------------------------------------------------------------------------
(* Optional values and attributes *)

None == <<>>
Some(v) == <<v>>
IsNone(o) == o = <<>>
Val(o) == o[1]

Absent == [k |-> "absent", v |-> 0]
NaN == [k |-> "nan", v |-> 0]
Num(n) == [k |-> "int", v |-> n]

\* `o or 0` on an optional integer
OrZero(o) == IF IsNone(o) THEN 0 ELSE Val(o)

\* `if x is not None: x += g`
AddOpt(o, g) == IF IsNone(o) THEN None ELSE Some(Val(o) + g)

-----------------------------------------------------------------------------
(* Unit conversion *)

EMU_PER_PX == 9525

\* a conversion that truncates toward zero instead of flooring
emu_to_px_trunc(a) ==
    IF a.k = "int"
    THEN Some(IF a.v >= 0 THEN a.v \div EMU_PER_PX ELSE -((-a.v) \div EMU_PER_PX))
    ELSE None

\* emu_to_px: int(v) // EMU_PER_PX (floor division), None when int(v) raises
emu_to_px(a) ==
    IF a.k = "int" THEN Some(a.v \div EMU_PER_PX) ELSE None

-----------------------------------------------------------------------------
(* XML parts.  A shape node is a record                                    *)
(*   tag  : "sp", "grpSp", "graphicFrame" or another tag ("pic")           *)
(*   pr   : whether the node has its properties child (p:spPr, p:grpSpPr)  *)
(*   xfrm : the a:xfrm the code's find reaches, None or                    *)
(*          Some([off |-> None or Some([x, y]), ext |-> None or Some([cx, cy])]) *)
(*   ph   : the type of the p:ph placeholder, "none" without one           *)
(*   tx   : the p:txBody, None or Some(sequence of a:p)                    *)
(*   kids : the child shapes (groups only)                                 *)
(*   tbl  : the a:tbl of a graphic frame, None or Some(rows), a row a      *)
(*          sequence of cells, a cell its a:txBody: None or Some(a:p's)    *)
(*   gd   : the a:graphicData of a graphic frame, None or                  *)
(*          Some([diagram |-> its uri ends with /diagram, texts |-> a:t's]) *)
(* An a:p is [segs, lvl]: segs the paragraph's text split at its a:br      *)
(* breaks, each segment a token ("" when it holds only white space), lvl   *)
(* the lvl attribute of its a:pPr.                                         *)
(***************************************************************************)

Para(segs) == [segs |-> segs, lvl |-> Absent]

Off(x, y) == Some([off |-> Some([x |-> x, y |-> y]),
                   ext |-> Some([cx |-> Num(19050), cy |-> Num(9525)])])

Sp(pr, xfrm, ph, tx) ==
    [tag |-> "sp", pr |-> pr, xfrm |-> xfrm, ph |-> ph, tx |-> tx, kids |-> <<>>,
     tbl |-> None, gd |-> None]

GrpSp(pr, xfrm, kids) ==
    [tag |-> "grpSp", pr |-> pr, xfrm |-> xfrm, ph |-> "none", tx |-> None, kids |-> kids,
     tbl |-> None, gd |-> None]

GraphicFrame(xfrm, tbl, gd, tx) ==
    [tag |-> "graphicFrame", pr |-> FALSE, xfrm |-> xfrm, ph |-> "none", tx |-> tx,
     kids |-> <<>>, tbl |-> tbl, gd |-> gd]

Pic == [tag |-> "pic", pr |-> TRUE, xfrm |-> None, ph |-> "none", tx |-> None, kids |-> <<>>,
        tbl |-> None, gd |-> None]

\* str.strip() on a paragraph's text: leading and trailing blank segments go
RECURSIVE LStrip(_)
LStrip(segs) ==
    IF segs = <<>> THEN <<>>
    ELSE IF Head(segs) = "" THEN LStrip(Tail(segs)) ELSE segs

RECURSIVE RStrip(_)
RStrip(segs) ==
    IF segs = <<>> THEN <<>>
    ELSE IF segs[Len(segs)] = "" THEN RStrip(SubSeq(segs, 1, Len(segs) - 1)) ELSE segs

\* the runs and breaks joined and not stripped
get_text_unstripped(a_p) == a_p.segs

\* get_text_from_a_p: the runs and breaks joined, then stripped
get_text_from_a_p(a_p) == RStrip(LStrip(a_p.segs))

\* get_level_from_a_p: int(lvl) when it parses, else 0
get_level_from_a_p(a_p) == IF a_p.lvl.k = "int" THEN a_p.lvl.v ELSE 0

\* xfrm_rect(parent) for a parent that exists: (x, y, w, h), each optional
xfrm_rect(node) ==
    IF IsNone(node.xfrm) THEN [x |-> None, y |-> None, w |-> None, h |-> None]
    ELSE LET xf == Val(node.xfrm) IN
         IF IsNone(xf.off) \/ IsNone(xf.ext)
         THEN [x |-> None, y |-> None, w |-> None, h |-> None]
         ELSE [x |-> emu_to_px(Val(xf.off).x), y |-> emu_to_px(Val(xf.off).y),
               w |-> emu_to_px(Val(xf.ext).cx), h |-> emu_to_px(Val(xf.ext).cy)]

-----------------------------------------------------------------------------
(* walk_tree.  The walk's state w is [err, blocks, visits]: err the         *)
(* exception raised ("none" while there is none), blocks the list the walk  *)
(* appends to, visits a history of the loop's iterations: the child's path  *)
(* (its index at each level from the shape tree down) and the gx, gy of the *)
(* call that iterates over it.  A block carries two history fields beside   *)
(* the code's: src, the path of the shape it comes from, and par, the       *)
(* position of its paragraph (or text) in that shape.                       *)
(***************************************************************************)

NoOffset == [x |-> 0, y |-> 0]

\* a group offset whose y is never read
GroupAddXOnly(child) ==
    IF ~child.pr \/ IsNone(child.xfrm) THEN NoOffset
    ELSE LET grp == Val(child.xfrm) IN
         IF IsNone(grp.off) THEN NoOffset
         ELSE [x |-> OrZero(emu_to_px(Val(grp.off).x)), y |-> 0]

\* lines 72-78: the offset a group adds, 0 where it has none or it does not parse
GroupAdd(child) ==
    IF ~child.pr \/ IsNone(child.xfrm) THEN NoOffset
    ELSE LET grp == Val(child.xfrm) IN
         IF IsNone(grp.off) THEN NoOffset
         ELSE [x |-> OrZero(emu_to_px(Val(grp.off).x)),
               y |-> OrZero(emu_to_px(Val(grp.off).y))]

\* a loop that adds the group's offset to its own gx, so that later siblings see it
SiblingOffsetLeak(g, add) == g + add

\* line 79 passes gx+add_x by value: the loop's own gx is what it was
SiblingOffset(g, add) == g

\* a loop over the paragraphs that ends at the first empty one (break for continue)
RECURSIVE SpParasUntilEmpty(_, _, _, _, _, _)
SpParasUntilEmpty(paras, i, w, r, cpath, slide_idx) ==
    IF i > Len(paras) THEN w
    ELSE LET txt == get_text_from_a_p(paras[i])
             b == [type |-> "paragraph", slide |-> slide_idx,
                   x |-> r.x, y |-> r.y, w |-> r.w, h |-> r.h,
                   level |-> get_level_from_a_p(paras[i]), text |-> txt,
                   src |-> cpath, par |-> i]
         IN IF txt = <<>> THEN w
            ELSE SpParasUntilEmpty(paras, i + 1, [w EXCEPT !.blocks = Append(@, b)],
                                   r, cpath, slide_idx)

\* lines 89-96: one block per a:p of the txBody whose text is not empty
RECURSIVE SpParas(_, _, _, _, _, _)
SpParas(paras, i, w, r, cpath, slide_idx) ==
    IF i > Len(paras) THEN w
    ELSE LET txt == get_text_from_a_p(paras[i])
             b == [type |-> "paragraph", slide |-> slide_idx,
                   x |-> r.x, y |-> r.y, w |-> r.w, h |-> r.h,
                   level |-> get_level_from_a_p(paras[i]), text |-> txt,
                   src |-> cpath, par |-> i]
         IN SpParas(paras, i + 1,
                    IF txt = <<>> THEN w ELSE [w EXCEPT !.blocks = Append(@, b)],
                    r, cpath, slide_idx)

\* a visit of a text shape that leaves title placeholders out
VisitSpNoTitle(child, cpath, w, gx, gy, slide_idx) ==
    IF ~child.pr THEN [w EXCEPT !.err = "AttributeError"]
    ELSE LET r0 == xfrm_rect(child)
             r == [r0 EXCEPT !.x = AddOpt(@, gx), !.y = AddOpt(@, gy)]
         IN IF IsNone(child.tx) \/ child.ph \in {"title", "ctrTitle"} THEN w
            ELSE SpParas(Val(child.tx), 1, w, r, cpath, slide_idx)

\* lines 82-97: a text shape; xfrm_rect(None) raises when p:spPr is missing
VisitSp(child, cpath, w, gx, gy, slide_idx) ==
    IF ~child.pr THEN [w EXCEPT !.err = "AttributeError"]
    ELSE LET r0 == xfrm_rect(child)
             r == [r0 EXCEPT !.x = AddOpt(@, gx), !.y = AddOpt(@, gy)]
         IN IF IsNone(child.tx) THEN w
            ELSE SpParas(Val(child.tx), 1, w, r, cpath, slide_idx)

\* lines 114-116: the non-empty paragraph texts of a cell
RECURSIVE CellTexts(_)
CellTexts(paras) ==
    IF paras = <<>> THEN <<>>
    ELSE LET t == get_text_from_a_p(Head(paras)) IN
         (IF t = <<>> THEN <<>> ELSE <<t>>) \o CellTexts(Tail(paras))

\* lines 110-117: a row's cells, each the " "-join of its texts (the list of them)
TableRow(a_tr) ==
    [j \in 1..Len(a_tr) |-> IF IsNone(a_tr[j]) THEN <<>> ELSE CellTexts(Val(a_tr[j]))]

\* lines 128-131: one level-1 block per non-blank a:t of the diagram
RECURSIVE DiagramTexts(_, _, _, _, _, _)
DiagramTexts(texts, i, w, r, cpath, slide_idx) ==
    IF i > Len(texts) THEN w
    ELSE LET b == [type |-> "paragraph", slide |-> slide_idx,
                   x |-> r.x, y |-> r.y, w |-> r.w, h |-> r.h,
                   level |-> 1, text |-> <<texts[i]>>, src |-> cpath, par |-> i]
         IN DiagramTexts(texts, i + 1,
                         IF texts[i] = "" THEN w ELSE [w EXCEPT !.blocks = Append(@, b)],
                         r, cpath, slide_idx)

\* lines 136-140: the frame's own txBody, level-0 blocks
RECURSIVE FrameParas(_, _, _, _, _, _)
FrameParas(paras, i, w, r, cpath, slide_idx) ==
    IF i > Len(paras) THEN w
    ELSE LET t == get_text_from_a_p(paras[i])
             b == [type |-> "paragraph", slide |-> slide_idx,
                   x |-> r.x, y |-> r.y, w |-> r.w, h |-> r.h,
                   level |-> 0, text |-> t, src |-> cpath, par |-> i]
         IN FrameParas(paras, i + 1,
                       IF t = <<>> THEN w ELSE [w EXCEPT !.blocks = Append(@, b)],
                       r, cpath, slide_idx)

\* a graphic frame whose diagram is looked at before its table
VisitGraphicFrameDiagramFirst(child, cpath, w, gx, gy, slide_idx) ==
    LET r0 == xfrm_rect(child)
        r == [r0 EXCEPT !.x = AddOpt(@, gx), !.y = AddOpt(@, gy)]
    IN IF ~IsNone(child.gd) /\ Val(child.gd).diagram
       THEN DiagramTexts(Val(child.gd).texts, 1, w, r, cpath, slide_idx)
       ELSE IF ~IsNone(child.tbl)
       THEN LET tbl == Val(child.tbl)
                b == [type |-> "table", slide |-> slide_idx,
                      x |-> r.x, y |-> r.y, w |-> r.w, h |-> r.h,
                      rows |-> [i \in 1..Len(tbl) |-> TableRow(tbl[i])],
                      src |-> cpath, par |-> 1]
            IN [w EXCEPT !.blocks = Append(@, b)]
       ELSE IF ~IsNone(child.tx)
       THEN FrameParas(Val(child.tx), 1, w, r, cpath, slide_idx)
       ELSE w

\* lines 99-141: a graphic frame: its table, else its diagram, else its txBody
VisitGraphicFrame(child, cpath, w, gx, gy, slide_idx) ==
    LET r0 == xfrm_rect(child)
        r == [r0 EXCEPT !.x = AddOpt(@, gx), !.y = AddOpt(@, gy)]
    IN IF ~IsNone(child.tbl)
       THEN LET tbl == Val(child.tbl)
                b == [type |-> "table", slide |-> slide_idx,
                      x |-> r.x, y |-> r.y, w |-> r.w, h |-> r.h,
                      rows |-> [i \in 1..Len(tbl) |-> TableRow(tbl[i])],
                      src |-> cpath, par |-> 1]
            IN [w EXCEPT !.blocks = Append(@, b)]
       ELSE IF ~IsNone(child.gd) /\ Val(child.gd).diagram
       THEN DiagramTexts(Val(child.gd).texts, 1, w, r, cpath, slide_idx)
       ELSE IF ~IsNone(child.tx)
       THEN FrameParas(Val(child.tx), 1, w, r, cpath, slide_idx)
       ELSE w

\* a child of another tag that ends the walk with an error
VisitOtherRaises(child, cpath, w) == [w EXCEPT !.err = "ValueError"]

\* lines 67-142: a child whose tag is none of grpSp, sp, graphicFrame matches no
\* branch of the loop body: nothing is appended, the loop goes on
VisitOther(child, cpath, w) == w

RECURSIVE WalkFrom(_, _, _, _, _, _, _)

\* walk_tree(node, blocks, gx, gy, slide_idx), node given by its children and its
\* path; line 79 calls it once more per level of groups, with no depth of its
\* own to stop at, so the call that the stack has no room for raises
walk_tree(kids, path, w, gx, gy, slide_idx) ==
    IF Len(path) >= StackLimit THEN [w EXCEPT !.err = "RecursionError"]
    ELSE WalkFrom(kids, 1, path, w, gx, gy, slide_idx)

\* the loop of walk_tree from its i-th child on; an exception ends it
WalkFrom(kids, i, path, w, gx, gy, slide_idx) ==
    IF i > Len(kids) \/ w.err # "none" THEN w
    ELSE LET child == kids[i]
             cpath == Append(path, i)
             w1 == [w EXCEPT !.visits = Append(@, [path |-> cpath, gx |-> gx, gy |-> gy])]
             add == IF child.tag = "grpSp" THEN GroupAdd(child) ELSE NoOffset
             w2 == CASE child.tag = "grpSp" ->
                          walk_tree(child.kids, cpath, w1, gx + add.x, gy + add.y, slide_idx)
                      [] child.tag = "sp" ->
                          VisitSp(child, cpath, w1, gx, gy, slide_idx)
                      [] child.tag = "graphicFrame" ->
                          VisitGraphicFrame(child, cpath, w1, gx, gy, slide_idx)
                      [] OTHER -> VisitOther(child, cpath, w1)
         IN WalkFrom(kids, i + 1, path, w2,
                     SiblingOffset(gx, add.x), SiblingOffset(gy, add.y), slide_idx)

-----------------------------------------------------------------------------
(* parse_slide_xml and parse_notes_xml.  A slide part is                    *)
(*   [ok |-> whether its XML parses, spTree |-> None or Some(children)];    *)
(* a notes part is [ok |-> ..., paras |-> its a:p's].                       *)
(***************************************************************************)

\* root.findall(".//p:sp"): the text shapes in document order, groups descended
RECURSIVE AllSp(_)
AllSp(kids) ==
    IF kids = <<>> THEN <<>>
    ELSE LET c == Head(kids) IN
         (CASE c.tag = "sp" -> <<c>>
            [] c.tag = "grpSp" -> AllSp(c.kids)
            [] OTHER -> <<>>) \o AllSp(Tail(kids))

\* lines 148-159: the text of the first title placeholder that has a txBody
RECURSIVE TitleOf(_)
TitleOf(sps) ==
    IF sps = <<>> THEN <<>>
    ELSE LET sp == Head(sps) IN
         IF sp.ph \in {"title", "ctrTitle"} /\ ~IsNone(sp.tx)
         THEN CellTexts(Val(sp.tx))
         ELSE TitleOf(Tail(sps))

\* lines 148, 158 and 227: title_text is a str from its initialisation "" on, and
\* the slides entry carries it as it is; as a JSON value it is a string, not null
TitleValue(title_text) == [null |-> FALSE, str |-> title_text]

EmptyWalk == [err |-> "none", blocks |-> <<>>, visits |-> <<>>]

\* parse_slide_xml(zf, slide_path, idx): [err, title, blocks, visits]
parse_slide_xml(doc, idx) ==
    IF ~doc.ok
    THEN [err |-> "ParseError", title |-> <<>>, blocks |-> <<>>, visits |-> <<>>]
    ELSE LET kids == IF IsNone(doc.spTree) THEN <<>> ELSE Val(doc.spTree)
             w == IF IsNone(doc.spTree) THEN EmptyWalk
                  ELSE walk_tree(kids, <<>>, EmptyWalk, 0, 0, idx)
         IN [err |-> w.err, title |-> TitleOf(AllSp(kids)),
             blocks |-> w.blocks, visits |-> w.visits]

RECURSIVE PathKey(_)

\* notes looked up by the number in the name of the slide's own part
parse_notes_xml_of_part(notes, idx) ==
    LET n == PathKey(slide_paths[idx]) IN
    IF n \notin DOMAIN notes THEN <<>>
    ELSE IF ~notes[n].ok THEN <<>>
    ELSE CellTexts(notes[n].paras)

\* parse_notes_xml(zf, idx): the non-empty paragraph texts joined by newlines,
\* "" when the part is missing or does not parse
parse_notes_xml(notes, idx) ==
    IF idx \notin DOMAIN notes THEN <<>>
    ELSE IF ~notes[idx].ok THEN <<>>
    ELSE CellTexts(notes[idx].paras)

-----------------------------------------------------------------------------
(* parse_pptx_bytes.  A package is                                          *)
(*   [zip    |-> whether the bytes open as a zip container,                 *)
(*    names  |-> its parts ppt/slides/slide<n>.xml in the order of          *)
(*               zf.namelist(), each name given by the decimal digits of n, *)
(*    slides |-> the slide part of each of those names,                     *)
(*    notes  |-> the notes part ppt/notesSlides/notesSlide<i>.xml of each   *)
(*               number i that has one].                                    *)
(***************************************************************************)

\* line 221: int("".join(ch for ch in p if ch.isdigit())), the number the digits spell
PathKey(digits) ==
    IF Len(digits) = 1 THEN digits[1]
    ELSE 10 * PathKey(SubSeq(digits, 1, Len(digits) - 1)) + digits[Len(digits)]

\* the order of the names as text, which sorted() without the key would use
RECURSIVE PathTextLess(_, _)
PathTextLess(a, b) ==
    IF a = <<>> THEN b # <<>>
    ELSE IF b = <<>> THEN FALSE
    ELSE IF Head(a) # Head(b) THEN Head(a) < Head(b)
    ELSE PathTextLess(Tail(a), Tail(b))

\* lines 220-221: the order of two names under the key
PathLess(a, b) == PathKey(a) < PathKey(b)

\* sorted(..., key=...) of the slide part names: insertion in ascending key order
RECURSIVE InsertPath(_, _)
InsertPath(sorted, n) ==
    IF sorted = <<>> THEN <<n>>
    ELSE IF PathLess(n, Head(sorted)) THEN <<n>> \o sorted
    ELSE <<Head(sorted)>> \o InsertPath(Tail(sorted), n)

RECURSIVE SortedFrom(_, _)
SortedFrom(names, acc) ==
    IF names = <<>> THEN acc ELSE SortedFrom(Tail(names), InsertPath(acc, Head(names)))

\* lines 220-221: slide_paths, sorted by the number in the name
SortPaths(names) == SortedFrom(names, <<>>)

\* line 230's key with x before y
BlockKeyXY(b) == <<b.slide, OrZero(b.x), OrZero(b.y)>>

\* a sort key that puts a missing coordinate after every known one
BlockKeyNoneLast(b) ==
    <<b.slide, IF IsNone(b.y) THEN 1000000 ELSE Val(b.y),
               IF IsNone(b.x) THEN 1000000 ELSE Val(b.x)>>

\* line 230: the sort key (slide, y or 0, x or 0)
BlockKey(b) == <<b.slide, OrZero(b.y), OrZero(b.x)>>

\* tuple comparison k1 < k2
KeyLess(k1, k2) ==
    \/ k1[1] < k2[1]
    \/ k1[1] = k2[1] /\ k1[2] < k2[2]
    \/ k1[1] = k2[1] /\ k1[2] = k2[2] /\ k1[3] < k2[3]

\* an insertion that puts b before the blocks of equal key
RECURSIVE InsertBlockBefore(_, _)
InsertBlockBefore(sorted, b) ==
    IF sorted = <<>> THEN <<b>>
    ELSE IF ~KeyLess(BlockKey(Head(sorted)), BlockKey(b)) THEN <<b>> \o sorted
    ELSE <<Head(sorted)>> \o InsertBlockBefore(Tail(sorted), b)

\* list.sort is stable: b goes behind every block whose key is not greater
RECURSIVE InsertBlock(_, _)
InsertBlock(sorted, b) ==
    IF sorted = <<>> THEN <<b>>
    ELSE IF KeyLess(BlockKey(b), BlockKey(Head(sorted))) THEN <<b>> \o sorted
    ELSE <<Head(sorted)>> \o InsertBlock(Tail(sorted), b)

RECURSIVE SortBlocksFrom(_, _)
SortBlocksFrom(blocks, acc) ==
    IF blocks = <<>> THEN acc
    ELSE SortBlocksFrom(Tail(blocks), InsertBlock(acc, Head(blocks)))

\* line 230: all_blocks.sort(key=...)
SortBlocks(blocks) == SortBlocksFrom(blocks, <<>>)

\* lines 191-196: the lines of a paragraph block, one per non-blank segment
\* (the indent is max(0, lvl-1) steps, the bullet is there when lvl > 0)
RECURSIVE ParaLines(_, _)
ParaLines(segs, lvl) ==
    IF segs = <<>> THEN <<>>
    ELSE (IF Head(segs) = "" THEN <<>>
          ELSE <<[k |-> "para", indent |-> IF lvl > 1 THEN lvl - 1 ELSE 0,
                  bullet |-> lvl > 0, text |-> Head(segs)]>>)
         \o ParaLines(Tail(segs), lvl)

\* line 199: " | ".join of the row's non-empty cells
RowLine(row) == [k |-> "row", cells |-> SelectSeq(row, LAMBDA c : c # <<>>)]

\* lines 187-199: the lines of the blocks of slide n, in the order of blocks
RECURSIVE BlockLines(_, _)
BlockLines(blocks, n) ==
    IF blocks = <<>> THEN <<>>
    ELSE LET b == Head(blocks) IN
         (IF b.slide # n THEN <<>>
          ELSE IF b.type = "paragraph" THEN ParaLines(b.text, b.level)
          ELSE IF b.type = "table" THEN [i \in 1..Len(b.rows) |-> RowLine(b.rows[i])]
          ELSE <<>>)
         \o BlockLines(Tail(blocks), n)

\* line 200: the prefix and the notes, one element of lines (the notes' own
\* newlines are inside it)
NotesLine(notes) == [k |-> "notes", prefix |-> "[NOTES] ", text |-> notes]

\* a raw text whose notes come before the block lines of their slide
RECURSIVE build_raw_text_notes_first(_, _)
build_raw_text_notes_first(metas, blocks) ==
    IF metas = <<>> THEN <<>>
    ELSE LET s == Head(metas) IN
         <<[k |-> "slide", n |-> s.slide]>>
         \o (IF s.title # <<>> THEN <<[k |-> "title", text |-> s.title]>> ELSE <<>>)
         \o (IF s.notes # <<>> THEN <<NotesLine(s.notes)>> ELSE <<>>)
         \o BlockLines(blocks, s.slide)
         \o build_raw_text_notes_first(Tail(metas), blocks)

\* build_raw_text(slides_meta, blocks): the elements of lines that "\n".join joins
RECURSIVE build_raw_text(_, _)
build_raw_text(metas, blocks) ==
    IF metas = <<>> THEN <<>>
    ELSE LET s == Head(metas) IN
         <<[k |-> "slide", n |-> s.slide]>>
         \o (IF s.title # <<>> THEN <<[k |-> "title", text |-> s.title]>> ELSE <<>>)
         \o BlockLines(blocks, s.slide)
         \o (IF s.notes # <<>> THEN <<NotesLine(s.notes)>> ELSE <<>>)
         \o build_raw_text(Tail(metas), blocks)

-----------------------------------------------------------------------------
(* The packages the requests carry *)

TextA == Some(<<Para(<<"A">>)>>)

\* text shapes: at (1,1) px, at (-1,0) px, with an x that is no number, and with
\* a p:spPr that has no transform
SpShapes ==
    { Sp(TRUE, Off(Num(9525), Num(9525)), "none", TextA),
      Sp(TRUE, Off(Num(-5000), Num(0)), "none", TextA),
      Sp(TRUE, Off(NaN, Num(19050)), "none", TextA),
      Sp(TRUE, None, "none", TextA) }

\* group transforms: none, (1,0) px, (0,2) px with an x below one pixel
GrpXfrms == { None, Off(Num(9525), Num(0)), Off(Num(5000), Num(19050)) }

RECURSIVE ForestsOfSize(_)
RECURSIVE TreesOfSize(_)

\* the shape trees of exactly n shapes whose root is one shape
TreesOfSize(n) ==
    (IF n = 1 THEN SpShapes ELSE {})
    \cup { GrpSp(TRUE, xf, f) : xf \in GrpXfrms, f \in ForestsOfSize(n - 1) }

\* the sequences of shape trees that hold exactly n shapes together
ForestsOfSize(n) ==
    IF n = 0 THEN { <<>> }
    ELSE UNION { { <<t>> \o f : t \in TreesOfSize(k), f \in ForestsOfSize(n - k) }
                 : k \in 1..n }

\* the example of three nested groups at (10,0), (0,5), (3,3) and a shape at (1,1)
NestedExample ==
    <<GrpSp(TRUE, Off(Num(95250), Num(0)),
        <<GrpSp(TRUE, Off(Num(0), Num(47625)),
            <<GrpSp(TRUE, Off(Num(28575), Num(28575)),
                <<Sp(TRUE, Off(Num(9525), Num(9525)), "none", TextA)>>)>>)>>)>>

\* slide parts of the one-slide packages: every shape tree of up to MaxNodes shapes
RichDocs ==
    { [ok |-> TRUE, spTree |-> Some(f)] : f \in UNION { ForestsOfSize(n) : n \in 0..MaxNodes } }

DocMalformed == [ok |-> FALSE, spTree |-> None]

DocNoTree == [ok |-> TRUE, spTree |-> None]

DocTitled ==
    [ok |-> TRUE,
     spTree |-> Some(<<Sp(TRUE, Off(Num(0), Num(0)), "title", Some(<<Para(<<"T">>)>>)),
                       Pic,
                       Sp(TRUE, Off(Num(9525), Num(9525)), "body",
                          Some(<<Para(<<"A">>), Para(<<"">>), Para(<<"B", "C">>)>>))>>)]

DocUnordered ==
    [ok |-> TRUE,
     spTree |-> Some(<<Sp(TRUE, Off(Num(0), Num(19050)), "none", Some(<<Para(<<"B">>)>>)),
                       GrpSp(TRUE, None, <<Sp(TRUE, None, "none", TextA)>>)>>)]

DocNoSpPr ==
    [ok |-> TRUE,
     spTree |-> Some(<<Sp(TRUE, Off(Num(9525), Num(0)), "none", TextA),
                       Sp(FALSE, None, "none", Some(<<Para(<<"B">>)>>)),
                       Sp(TRUE, Off(Num(0), Num(0)), "none", Some(<<Para(<<"C">>)>>))>>)]

\* a text shape without p:spPr inside a group at (1,0), between two other shapes
DocNoSpPrInGroup ==
    [ok |-> TRUE,
     spTree |-> Some(<<Sp(TRUE, Off(Num(0), Num(9525)), "none", TextA),
                       GrpSp(TRUE, Off(Num(9525), Num(0)),
                             <<Sp(FALSE, None, "none", Some(<<Para(<<"B">>)>>))>>),
                       Sp(TRUE, Off(Num(0), Num(0)), "none", Some(<<Para(<<"C">>)>>))>>)]

\* a table of three rows, the second with only empty cells (a blank paragraph, no
\* txBody, a txBody without paragraphs), between two text shapes
DocTable ==
    [ok |-> TRUE,
     spTree |-> Some(<<Sp(TRUE, Off(Num(0), Num(0)), "none", TextA),
                       GraphicFrame(Off(Num(0), Num(9525)),
                           Some(<< <<Some(<<Para(<<"H">>)>>), None, Some(<<Para(<<"I">>)>>)>>,
                                   <<Some(<<Para(<<"">>)>>), None, Some(<<>>)>>,
                                   <<None, Some(<<Para(<<"">>), Para(<<"J">>)>>), None>> >>),
                           None, None),
                       Sp(TRUE, Off(Num(0), Num(19050)), "none", Some(<<Para(<<"B">>)>>))>>)]

DiagramData(texts) == Some([diagram |-> TRUE, texts |-> texts])

ChartData == Some([diagram |-> FALSE, texts |-> <<"X">>])

\* graphic frames: a table that also has diagram data and a txBody, a diagram of
\* three texts (one blank), a diagram without text that has a txBody, a chart, a
\* chart with a txBody of its own, a frame with nothing, and a text shape after them
DocFrames ==
    [ok |-> TRUE,
     spTree |-> Some(<<GraphicFrame(None, Some(<< <<Some(<<Para(<<"">>), Para(<<"H">>)>>)>> >>),
                                    DiagramData(<<"D">>), Some(<<Para(<<"F">>)>>)),
                       GraphicFrame(Off(Num(9525), Num(0)), None,
                                    DiagramData(<<"D", "", "E">>), Some(<<Para(<<"F">>)>>)),
                       GraphicFrame(None, None, DiagramData(<<"">>), Some(<<Para(<<"F">>)>>)),
                       GraphicFrame(None, None, ChartData, None),
                       GraphicFrame(Off(Num(0), Num(9525)), None, ChartData,
                                    Some(<<Para(<<"">>), Para(<<"F", "", "G">>)>>)),
                       GraphicFrame(None, None, None, None),
                       Sp(TRUE, Off(Num(0), Num(19050)), "none",
                          Some(<<Para(<<"">>), Para(<<"", "B", "">>)>>))>>)]

\* a table without rows, and nothing else
DocEmptyTable ==
    [ok |-> TRUE, spTree |-> Some(<<GraphicFrame(None, Some(<<>>), None, None)>>)]

\* two title placeholders, the first with blank text only, the second of two
\* paragraphs, and a body
DocTwoTitles ==
    [ok |-> TRUE,
     spTree |-> Some(<<Sp(TRUE, Off(Num(0), Num(0)), "title", Some(<<Para(<<"">>)>>)),
                       Sp(TRUE, Off(Num(0), Num(9525)), "ctrTitle",
                          Some(<<Para(<<"T">>), Para(<<"U">>)>>)),
                       Sp(TRUE, Off(Num(0), Num(19050)), "body", TextA)>>)]

\* a title placeholder without txBody before one with text
DocTitleNoBody ==
    [ok |-> TRUE,
     spTree |-> Some(<<Sp(TRUE, Off(Num(0), Num(0)), "title", None),
                       Sp(TRUE, Off(Num(0), Num(9525)), "title", Some(<<Para(<<"T", "U">>)>>))>>)]

\* pictures and a text shape without text
DocPictures ==
    [ok |-> TRUE,
     spTree |-> Some(<<Pic, GrpSp(TRUE, Off(Num(9525), Num(0)), <<Pic>>),
                       Sp(TRUE, None, "none", Some(<<Para(<<"">>)>>)),
                       Sp(TRUE, None, "none", None), Pic>>)]

\* a text shape inside n nested groups
RECURSIVE Nested(_)
Nested(n) ==
    IF n = 0 THEN Sp(TRUE, Off(Num(0), Num(9525)), "none", Some(<<Para(<<"B">>)>>))
    ELSE GrpSp(TRUE, None, <<Nested(n - 1)>>)

\* groups nested one level deeper than the stack has room for, after a text shape
DocDeep ==
    [ok |-> TRUE,
     spTree |-> Some(<<Sp(TRUE, Off(Num(0), Num(0)), "none", TextA), Nested(StackLimit)>>)]

\* a text shape whose paragraph is an e-mail address
DocEmail ==
    [ok |-> TRUE,
     spTree |-> Some(<<Sp(TRUE, Off(Num(0), Num(0)), "none",
                          Some(<<Para(<<"john@example.com">>)>>))>>)]

\* further slide parts of one-slide packages
SingleDocs ==
    { DocNoTree, DocNoSpPr, DocNoSpPrInGroup, DocMalformed,
      [ok |-> TRUE, spTree |-> Some(NestedExample)],
      DocTable, DocFrames, DocEmptyTable, DocTwoTitles, DocTitleNoBody, DocPictures,
      DocTitled, DocEmail, DocDeep }

\* slide parts of the packages of several slides
SimpleDocs == { DocMalformed, DocTitled, DocUnordered }

Range(f) == { f[i] : i \in DOMAIN f }

\* str(n) for a part number: its decimal digits
RECURSIVE DigitsOf(_)
DigitsOf(n) == IF n < 10 THEN <<n>> ELSE DigitsOf(n \div 10) \o <<n % 10>>

\* the names of the slide parts, slide1.xml .. and slide10.xml
PartNames == { DigitsOf(n) : n \in 1..(MaxPartNo - 1) \cup {10} }

\* the orders in which a package may list slide parts of distinct names
PartOrders ==
    { s \in UNION { [1..k -> PartNames] : k \in 0..MaxPartNo } :
        \A i, j \in DOMAIN s : i # j => s[i] # s[j] }

NotesPart(n) ==
    [ok |-> n # 2,
     paras |-> IF n = 1 THEN <<Para(<<"N">>), Para(<<"">>), Para(<<"M", "O">>)>>
               ELSE <<Para(<<"P">>)>>]

\* the notes parts of a package: none, or one per number (that of 1 with three
\* paragraphs, that of 2 malformed)
NotesChoices == { <<>>, [n \in 1..MaxPartNo |-> NotesPart(n)] }

BadZip == [zip |-> FALSE, names |-> <<>>, slides |-> <<>>, notes |-> <<>>]

Packages ==
    { BadZip }
    \cup UNION { { [zip |-> TRUE, names |-> s, slides |-> d, notes |-> nt] :
                     d \in [Range(s) -> SimpleDocs], nt \in NotesChoices }
                 : s \in PartOrders }
    \cup { [zip |-> TRUE, names |-> <<DigitsOf(1)>>, slides |-> [n \in {DigitsOf(1)} |-> d],
             notes |-> <<>>] :
             d \in RichDocs \cup SingleDocs }

-----------------------------------------------------------------------------
(* The other functions before their first request *)

UiIdle ==
    /\ ui_pc = "idle"
    /\ ui_rel = None
    /\ ui_files = {}
    /\ ui_path = None
    /\ ui_response = None

AgentIdle ==
    /\ ag_pc = "idle"
    /\ ag_req = None
    /\ ag_calls = <<>>
    /\ ag_sas = None
    /\ ag_r1 = None
    /\ ag_r2 = None
    /\ ag_response = None

PdfIdle ==
    /\ pdf_pc = "idle"
    /\ pdf_env = "unset"
    /\ pdf_log = <<>>
    /\ pdf_result = None

SideIdle == UiIdle /\ AgentIdle /\ PdfIdle

-----------------------------------------------------------------------------
(* The handler main of pptxextract, step by step *)

Init ==
    /\ pc = "idle"
    /\ pkg = None
    /\ slide_paths = <<>>
    /\ slides_meta = <<>>
    /\ all_blocks = <<>>
    /\ raised = "none"
    /\ parsed = None
    /\ response = None
    /\ visits = <<>>
    /\ emu_a = 0 /\ emu_b = 0 /\ px_a = None /\ px_b = None
    /\ first = None
    /\ SideIdle

\* main, lines 240-241: the URL names no .pptx file
RejectUrl ==
    /\ pc = "idle"
    /\ pc' = "done"
    /\ response' = Some([status |-> 400, error |-> "Provide a blob SAS URL to a .pptx file"])
    /\ UNCHANGED <<pkg, slide_paths, slides_meta, all_blocks, raised, parsed, visits,
                   emu_a, emu_b, px_a, px_b, first, sideVars>>

\* main, lines 236-243: the body is read and the bytes are downloaded
Download ==
    /\ pc = "idle"
    /\ pc' = "downloaded"
    /\ \E p \in Packages : pkg' = Some(p)
    /\ UNCHANGED <<slide_paths, slides_meta, all_blocks, raised, parsed, response, visits,
                   emu_a, emu_b, px_a, px_b, first, sideVars>>

\* main, line 243: the download fails
DownloadFails ==
    /\ pc = "idle"
    /\ pc' = "done"
    /\ response' = Some([status |-> 500, error |-> "network"])
    /\ UNCHANGED <<pkg, slide_paths, slides_meta, all_blocks, raised, parsed, visits,
                   emu_a, emu_b, px_a, px_b, first, sideVars>>

\* the slide part names in any order (as if they were listed from a set)
OpenAnyOrder ==
    /\ pc = "downloaded"
    /\ IF Val(pkg).zip
       THEN /\ pc' = "opened"
            /\ \E s \in PartOrders :
                  /\ Range(s) = Range(Val(pkg).names) /\ Len(s) = Len(Val(pkg).names)
                  /\ slide_paths' = s
            /\ UNCHANGED raised
       ELSE /\ pc' = "raised"
            /\ raised' = "BadZipFile"
            /\ UNCHANGED slide_paths
    /\ UNCHANGED <<pkg, slides_meta, all_blocks, parsed, response, visits,
                   emu_a, emu_b, px_a, px_b, first, sideVars>>

\* parse_pptx_bytes, lines 219-222: the container is opened, the slide parts listed
Open ==
    /\ pc = "downloaded"
    /\ IF Val(pkg).zip
       THEN /\ pc' = "opened"
            /\ slide_paths' = SortPaths(Val(pkg).names)
            /\ UNCHANGED raised
       ELSE /\ pc' = "raised"
            /\ raised' = "BadZipFile"
            /\ UNCHANGED slide_paths
    /\ UNCHANGED <<pkg, slides_meta, all_blocks, parsed, response, visits,
                   emu_a, emu_b, px_a, px_b, first, sideVars>>

\* parse_pptx_bytes, lines 223-228: one iteration of the loop over slide_paths
ParseSlide ==
    /\ pc = "opened"
    /\ Len(slides_meta) < Len(slide_paths)
    /\ LET idx == Len(slides_meta) + 1
           r == parse_slide_xml(Val(pkg).slides[slide_paths[idx]], idx)
           notes == parse_notes_xml(Val(pkg).notes, idx)
       IN IF r.err # "none"
          THEN /\ pc' = "raised"
               /\ raised' = r.err
               /\ UNCHANGED <<slides_meta, all_blocks, visits>>
          ELSE /\ slides_meta' = Append(slides_meta,
                                        [slide |-> idx, title |-> r.title, notes |-> notes])
               /\ all_blocks' = all_blocks \o r.blocks
               /\ visits' = Append(visits, r.visits)
               /\ UNCHANGED <<pc, raised>>
    /\ UNCHANGED <<pkg, slide_paths, parsed, response, emu_a, emu_b, px_a, px_b, first, sideVars>>

\* parse_pptx_bytes, lines 229-232: the blocks are sorted, the raw text is built
Assemble ==
    /\ pc = "opened"
    /\ Len(slides_meta) = Len(slide_paths)
    /\ LET sorted == SortBlocks(all_blocks) IN
       /\ all_blocks' = sorted
       /\ parsed' = Some([slides |-> slides_meta, blocks |-> sorted,
                          raw_text |-> build_raw_text(slides_meta, sorted)])
    /\ pc' = "assembled"
    /\ UNCHANGED <<pkg, slide_paths, slides_meta, raised, response, visits,
                   emu_a, emu_b, px_a, px_b, first, sideVars>>

\* line 245: the values uuid.uuid4() may give to the name of the stored blob
Uuids == { "uuid-a", "uuid-b" }

\* main, lines 245-253: the result is stored and the counts are answered
Respond ==
    /\ pc = "assembled"
    /\ pc' = "done"
    /\ \E u \in Uuids :
          response' = Some([status |-> 200, raw_json_url |-> u,
                            text |-> Val(parsed).raw_text,
                            blocks_count |-> Len(Val(parsed).blocks),
                            slides_count |-> Len(Val(parsed).slides)])
    /\ UNCHANGED <<pkg, slide_paths, slides_meta, all_blocks, raised, parsed, visits,
                   emu_a, emu_b, px_a, px_b, first, sideVars>>

\* main, lines 246 and 254-258: storing the result fails
UploadFails ==
    /\ pc = "assembled"
    /\ pc' = "done"
    /\ response' = Some([status |-> 500, error |-> "network"])
    /\ UNCHANGED <<pkg, slide_paths, slides_meta, all_blocks, raised, parsed, visits,
                   emu_a, emu_b, px_a, px_b, first, sideVars>>

\* main, lines 259-260: an exception of parse_pptx_bytes is answered with 500
RespondError ==
    /\ pc = "raised"
    /\ pc' = "done"
    /\ response' = Some([status |-> 500, error |-> raised])
    /\ UNCHANGED <<pkg, slide_paths, slides_meta, all_blocks, raised, parsed, visits,
                   emu_a, emu_b, px_a, px_b, first, sideVars>>

Next ==
    \/ RejectUrl
    \/ Download
    \/ DownloadFails
    \/ Open
    \/ ParseSlide
    \/ Assemble
    \/ Respond
    \/ UploadFails
    \/ RespondError

Spec == Init /\ [][Next]_vars

-----------------------------------------------------------------------------
(* Two requests for the same bytes *)

\* main, lines 234-244: after a request has been answered, a second request
\* names the same blob and downloads the same bytes; how the first ended is kept
Rerun ==
    /\ pc = "done"
    /\ ~IsNone(pkg)
    /\ IsNone(first)
    /\ first' = Some([parsed |-> parsed, raised |-> raised, response |-> response])
    /\ pc' = "downloaded"
    /\ slide_paths' = <<>>
    /\ slides_meta' = <<>>
    /\ all_blocks' = <<>>
    /\ raised' = "none"
    /\ parsed' = None
    /\ response' = None
    /\ visits' = <<>>
    /\ UNCHANGED <<pkg, emu_a, emu_b, px_a, px_b, sideVars>>

NextTwice ==
    \/ RejectUrl
    \/ Download
    \/ DownloadFails
    \/ Open
    \/ ParseSlide
    \/ Assemble
    \/ Respond
    \/ UploadFails
    \/ RespondError
    \/ Rerun

SpecTwice == Init /\ [][NextTwice]_vars

-----------------------------------------------------------------------------
(* The unit conversion applied to pairs of lengths *)

EmuFractions == { 0, 1, 4762, 9524 }

EmuInputs == { k * EMU_PER_PX + d : k \in (-MaxEmuK)..MaxEmuK, d \in EmuFractions }

InitEmu ==
    /\ pc = "idle"
    /\ pkg = None
    /\ slide_paths = <<>>
    /\ slides_meta = <<>>
    /\ all_blocks = <<>>
    /\ raised = "none"
    /\ parsed = None
    /\ response = None
    /\ visits = <<>>
    /\ emu_a \in EmuInputs
    /\ emu_b \in EmuInputs
    /\ px_a = None
    /\ px_b = None
    /\ first = None
    /\ SideIdle

\* emu_to_px on the text of both lengths
Convert ==
    /\ px_a = None
    /\ px_a' = emu_to_px(Num(emu_a))
    /\ px_b' = emu_to_px(Num(emu_b))
    /\ UNCHANGED <<pc, pkg, slide_paths, slides_meta, all_blocks, raised, parsed, response,
                   visits, emu_a, emu_b, first, sideVars>>

NextEmu == Convert

SpecEmu == InitEmu /\ [][NextEmu]_vars

-----------------------------------------------------------------------------
(* serverui.  A file name is the sequence of the pieces of text it is made  *)
(* of, so that one name can be the beginning of another ("ui" of            *)
(* "ui-backup"); an absolute path is the sequence of its names from the     *)
(* root; a route parameter is [abs |-> it starts with "/", names |-> its    *)
(* names, dir |-> it ends with "/"].                                        *)
(***************************************************************************)

NameSite == <<"site">>
NameWwwroot == <<"wwwroot">>
NameUi == <<"ui">>
NameUiBackup == <<"ui", "-backup">>
NameApp == <<"app">>
NameIndexHtml == <<"index", ".html">>
NameXTxt == <<"x", ".txt">>
NameUp == <<"..">>

\* line 6: BASE_DIR, /site/wwwroot/ui
BASE_DIR == <<NameSite, NameWwwroot, NameUi>>

Route(abs, names, dir) == [abs |-> abs, names |-> names, dir |-> dir]

\* the route parameters of the requests: "", "app", "index.html", "app/", "x.txt",
\* "../x.txt", "../ui-backup/x.txt", "../ui-backup", "/site/wwwroot/ui-backup/x.txt",
\* "/x.txt", "../../..", "app/../index.html"
RouteParams ==
    { Route(FALSE, <<>>, FALSE),
      Route(FALSE, <<NameApp>>, FALSE),
      Route(FALSE, <<NameIndexHtml>>, FALSE),
      Route(FALSE, <<NameApp>>, TRUE),
      Route(FALSE, <<NameXTxt>>, FALSE),
      Route(FALSE, <<NameUp, NameXTxt>>, FALSE),
      Route(FALSE, <<NameUp, NameUiBackup, NameXTxt>>, FALSE),
      Route(FALSE, <<NameUp, NameUiBackup>>, FALSE),
      Route(TRUE, <<NameSite, NameWwwroot, NameUiBackup, NameXTxt>>, FALSE),
      Route(TRUE, <<NameXTxt>>, FALSE),
      Route(FALSE, <<NameUp, NameUp, NameUp>>, FALSE),
      Route(FALSE, <<NameApp, NameUp, NameIndexHtml>>, FALSE) }

\* the files there may be: ui/index.html, ui/x.txt, ui-backup/x.txt and x.txt
\* beside the ui directory
FileSystems ==
    SUBSET { BASE_DIR \o <<NameIndexHtml>>,
             BASE_DIR \o <<NameXTxt>>,
             <<NameSite, NameWwwroot, NameUiBackup, NameXTxt>>,
             <<NameSite, NameWwwroot, NameXTxt>> }

\* lines 16-18: a parameter that is empty or ends with "/" gets index.html appended
CompleteRel(r) ==
    IF (~r.abs /\ r.names = <<>>) \/ r.dir
    THEN Route(r.abs, Append(r.names, NameIndexHtml), FALSE)
    ELSE r

\* os.path.abspath on the names of a path: ".." leaves the directory, the root
\* is its own parent
RECURSIVE NormPath(_, _)
NormPath(names, acc) ==
    IF names = <<>> THEN acc
    ELSE IF Head(names) = NameUp
         THEN NormPath(Tail(names), IF acc = <<>> THEN <<>> ELSE SubSeq(acc, 1, Len(acc) - 1))
         ELSE NormPath(Tail(names), Append(acc, Head(names)))

\* os.path.abspath(os.path.join(base, rel)): an absolute rel replaces base
AbsJoin(base, rel) ==
    IF rel.abs THEN NormPath(rel.names, <<>>) ELSE NormPath(base \o rel.names, <<>>)

\* the text of an absolute path: "/" and the name, for each of its names
RECURSIVE PathText(_)
PathText(path) ==
    IF path = <<>> THEN <<>> ELSE <<"/">> \o Head(path) \o PathText(Tail(path))

\* str.startswith
StartsWith(text, prefix) ==
    Len(prefix) <= Len(text) /\ SubSeq(text, 1, Len(prefix)) = prefix

\* line 10: final.startswith(os.path.abspath(base))
JoinAllowed(final, base) == StartsWith(PathText(final), PathText(base))

\* lines 8-12: _safe_join(base, rel): the path, or ValueError
_safe_join(base, rel) ==
    LET final == AbsJoin(base, rel) IN
    [ok |-> JoinAllowed(final, base), path |-> final]

\* "." in os.path.basename(rel)
BasenameHasDot(rel) ==
    /\ rel.names # <<>>
    /\ \E c \in DOMAIN rel.names[Len(rel.names)] :
          rel.names[Len(rel.names)][c] \in {".html", ".txt", ".."}

\* main, lines 16-18: the request arrives, rel is completed
UiReceive ==
    /\ ui_pc = "idle"
    /\ ui_pc' = "received"
    /\ \E r \in RouteParams : ui_rel' = Some(CompleteRel(r))
    /\ \E fs \in FileSystems : ui_files' = fs
    /\ UNCHANGED <<ui_path, ui_response>>
    /\ UNCHANGED <<pptxVars, agentVars, pdfVars>>

\* main, lines 20-23: _safe_join, 403 when it raises
UiJoin ==
    /\ ui_pc = "received"
    /\ LET j == _safe_join(BASE_DIR, Val(ui_rel)) IN
       IF j.ok
       THEN /\ ui_path' = Some(j.path)
            /\ ui_pc' = "joined"
            /\ UNCHANGED ui_response
       ELSE /\ ui_response' = Some([status |-> 403, body |-> <<>>])
            /\ ui_pc' = "done"
            /\ UNCHANGED ui_path
    /\ UNCHANGED <<ui_rel, ui_files>>
    /\ UNCHANGED <<pptxVars, agentVars, pdfVars>>

\* lines 26-27: the single-page fallback to index.html
FallbackPath ==
    IF Val(ui_path) \notin ui_files /\ ~BasenameHasDot(Val(ui_rel))
    THEN _safe_join(BASE_DIR, Route(FALSE, <<NameIndexHtml>>, FALSE)).path
    ELSE Val(ui_path)

\* main, lines 26-42: fallback, 404 for a missing file, else the file's bytes
\* (the body is given by the path of the file that was read)
UiServe ==
    /\ ui_pc = "joined"
    /\ ui_pc' = "done"
    /\ ui_path' = Some(FallbackPath)
    /\ ui_response' = IF FallbackPath \in ui_files
                      THEN Some([status |-> 200, body |-> FallbackPath])
                      ELSE Some([status |-> 404, body |-> <<>>])
    /\ UNCHANGED <<ui_rel, ui_files>>
    /\ UNCHANGED <<pptxVars, agentVars, pdfVars>>

\* main, lines 33-37: the file is there but reading it fails
UiReadFails ==
    /\ ui_pc = "joined"
    /\ FallbackPath \in ui_files
    /\ ui_pc' = "done"
    /\ ui_path' = Some(FallbackPath)
    /\ ui_response' = Some([status |-> 500, body |-> <<>>])
    /\ UNCHANGED <<ui_rel, ui_files>>
    /\ UNCHANGED <<pptxVars, agentVars, pdfVars>>

NextUi ==
    \/ UiReceive
    \/ UiJoin
    \/ UiServe
    \/ UiReadFails

SpecUi == Init /\ [][NextUi]_vars

-----------------------------------------------------------------------------
(* cvagent.  A request is [method, json |-> its body is JSON, mode, b64 |->  *)
(* its pptx_base64: "valid", "invalid" or "absent", cv |-> it has a cv,      *)
(* name |-> its pptx_name]; what _post_json returns is [raises, status,      *)
(* json |-> the kind of r.json(): "dict", "dict_cv" (a dict with a cv),      *)
(* "list", or "none" when the body is no JSON].                              *)
(***************************************************************************)

AgentRequest(method, json, mode, b64, cv, name) ==
    [method |-> method, json |-> json, mode |-> mode, b64 |-> b64, cv |-> cv, name |-> name]

AgentRequests ==
    { AgentRequest("GET", TRUE, "normalize_only", "valid", FALSE, "a.pptx"),
      AgentRequest("POST", FALSE, "normalize_only", "valid", FALSE, "a.pptx"),
      AgentRequest("POST", TRUE, "normalize_only", "invalid", FALSE, "a.pptx"),
      AgentRequest("POST", TRUE, "normalize_only", "absent", FALSE, "a.pptx"),
      AgentRequest("POST", TRUE, "export", "absent", TRUE, "a.pptx"),
      AgentRequest("POST", TRUE, "export", "absent", FALSE, "a.pptx") }
    \cup { AgentRequest("POST", TRUE, "normalize_only", "valid", cv, name) :
               cv \in BOOLEAN, name \in {"resume.pptx", "a.pptx"} }

\* lines 211-215: _post_json returns (status, JSON or None, text), or requests raises
PostResults ==
    { [raises |-> TRUE, status |-> 0, json |-> "none"] }
    \cup { [raises |-> FALSE, status |-> st, json |-> j] :
               st \in {200, 202, 400, 500}, j \in {"dict", "dict_cv", "list", "none"} }

\* isinstance(j, dict)
IsDict(j) == j \in {"dict", "dict_cv"}

\* lines 306-307: the request is one of the normalize_only flow
IsNormalizeOnly(q) == q.mode = "normalize_only" /\ q.b64 # "absent"

AgentAnswer(status, body) == Some([status |-> status, body |-> body])

\* main, line 296: the request arrives
AgReceive ==
    /\ ag_pc = "idle"
    /\ ag_pc' = "received"
    /\ \E q \in AgentRequests : ag_req' = Some(q)
    /\ UNCHANGED <<ag_calls, ag_sas, ag_r1, ag_r2, ag_response>>
    /\ UNCHANGED <<pptxVars, uiVars, pdfVars>>

\* main, lines 298-312 and 361: the requests answered without any step: not POST,
\* no JSON body, pptx_base64 that does not decode, none of the two flows
AgReject ==
    /\ ag_pc = "received"
    /\ LET q == Val(ag_req) IN
       /\ \/ q.method # "POST"
          \/ ~q.json
          \/ IsNormalizeOnly(q) /\ q.b64 = "invalid"
          \/ ~IsNormalizeOnly(q) /\ ~q.cv
       /\ ag_response' = IF q.method # "POST" THEN AgentAnswer(405, "POST only")
                          ELSE IF ~q.json THEN AgentAnswer(400, "Invalid JSON body")
                          ELSE IF IsNormalizeOnly(q) THEN AgentAnswer(400, "Invalid base64")
                          ELSE AgentAnswer(400, "Unsupported request")
    /\ ag_pc' = "done"
    /\ UNCHANGED <<ag_req, ag_calls, ag_sas, ag_r1, ag_r2>>
    /\ UNCHANGED <<pptxVars, uiVars, pdfVars>>

\* main, lines 314-321: _upload_pptx_and_get_sas returns the SAS URL, or the
\* upload or the minting of the SAS raises
AgUpload ==
    /\ ag_pc = "received"
    /\ LET q == Val(ag_req) IN
       q.method = "POST" /\ q.json /\ IsNormalizeOnly(q) /\ q.b64 = "valid"
    /\ ag_calls' = Append(ag_calls, "upload")
    /\ \E out \in {"sas", "upload raises", "no account key"} :
          IF out = "sas"
          THEN /\ ag_sas' = Some("sas_url")
               /\ ag_pc' = "uploaded"
               /\ UNCHANGED ag_response
          ELSE /\ ag_response' = AgentAnswer(500, "Upload/SAS failed")
               /\ ag_pc' = "done"
               /\ UNCHANGED ag_sas
    /\ UNCHANGED <<ag_req, ag_r1, ag_r2>>
    /\ UNCHANGED <<pptxVars, uiVars, pdfVars>>

\* the extractor's answer judged by its status alone
AgExtractStatusOnly ==
    /\ ag_pc = "uploaded"
    /\ ag_calls' = Append(ag_calls, "extract")
    /\ \E r \in PostResults :
          /\ ag_r1' = Some(r)
          /\ IF r.raises
             THEN ag_response' = AgentAnswer(500, "cvagent failed") /\ ag_pc' = "done"
             ELSE IF r.status # 200
             THEN ag_response' = AgentAnswer(500, "pptxextract failed") /\ ag_pc' = "done"
             ELSE ag_pc' = "extracted" /\ UNCHANGED ag_response
    /\ UNCHANGED <<ag_req, ag_sas, ag_r2>>
    /\ UNCHANGED <<pptxVars, uiVars, pdfVars>>

\* main, lines 323-327: the extractor is called; anything but 200 with a JSON
\* object is answered with 500 (an exception of requests by lines 363-368)
AgExtract ==
    /\ ag_pc = "uploaded"
    /\ ag_calls' = Append(ag_calls, "extract")
    /\ \E r \in PostResults :
          /\ ag_r1' = Some(r)
          /\ IF r.raises
             THEN ag_response' = AgentAnswer(500, "cvagent failed") /\ ag_pc' = "done"
             ELSE IF r.status # 200 \/ ~IsDict(r.json)
             THEN ag_response' = AgentAnswer(500, "pptxextract failed") /\ ag_pc' = "done"
             ELSE ag_pc' = "extracted" /\ UNCHANGED ag_response
    /\ UNCHANGED <<ag_req, ag_sas, ag_r2>>
    /\ UNCHANGED <<pptxVars, uiVars, pdfVars>>

\* main, lines 329-336: the normalizer is called with the extractor's JSON; 200
\* with the cv when it answers 200 with a JSON object, else 500
AgNormalize ==
    /\ ag_pc = "extracted"
    /\ ag_calls' = Append(ag_calls, "normalize")
    /\ \E r \in PostResults :
          /\ ag_r2' = Some(r)
          /\ ag_response' =
                IF r.raises THEN AgentAnswer(500, "cvagent failed")
                ELSE IF r.status # 200 \/ ~IsDict(r.json)
                THEN AgentAnswer(500, "cvnormalize failed")
                ELSE AgentAnswer(200, "cv")
    /\ ag_pc' = "done"
    /\ UNCHANGED <<ag_req, ag_sas, ag_r1>>
    /\ UNCHANGED <<pptxVars, uiVars, pdfVars>>

\* main, lines 338-359: the export flow: the renderer is called, its JSON is
\* passed on with 200, anything else is answered with 500
AgExport ==
    /\ ag_pc = "received"
    /\ LET q == Val(ag_req) IN
       q.method = "POST" /\ q.json /\ ~IsNormalizeOnly(q) /\ q.cv
    /\ ag_calls' = Append(ag_calls, "render")
    /\ \E r \in PostResults :
          ag_response' =
             IF r.raises THEN AgentAnswer(500, "cvagent failed")
             ELSE IF r.status # 200 \/ ~IsDict(r.json)
             THEN AgentAnswer(500, "renderpdf_html failed")
             ELSE AgentAnswer(200, "pdf")
    /\ ag_pc' = "done"
    /\ UNCHANGED <<ag_req, ag_sas, ag_r1, ag_r2>>
    /\ UNCHANGED <<pptxVars, uiVars, pdfVars>>

NextAgent ==
    \/ AgReceive
    \/ AgReject
    \/ AgUpload
    \/ AgExtract
    \/ AgNormalize
    \/ AgExport

SpecAgent == Init /\ [][NextAgent]_vars

-----------------------------------------------------------------------------
(* renderpdf_html: _html_to_pdf_bytes.  pdf_log lists what was attempted:   *)
(* [step |-> "render", out |-> "pdf", "no executable" (the message holds    *)
(* "Executable doesn't exist"), "install hint" (it holds "playwright        *)
(* install"), "timeout" or "other error"], and [step |-> "ensure",          *)
(* out |-> "found" (_has_chromium), "installed" (exit code 0),              *)
(* "install failed" or "makedirs failed"].                                  *)
(***************************************************************************)

RenderOutcomes == { "pdf", "no executable", "install hint", "timeout", "other error" }

EnsureOutcomes == { "found", "installed", "install failed", "makedirs failed" }

\* line 228: "Executable doesn't exist" in msg or "playwright install" in msg.lower()
IsMissingBrowser(out) == out \in {"no executable", "install hint"}

\* render_once (lines 210-223) with its outcome
Rendered(out) == [step |-> "render", out |-> out]

\* _ensure_playwright_browsers (lines 166-198) with its outcome
Ensured(out) == [step |-> "ensure", out |-> out]

\* _html_to_pdf_bytes is called; PLAYWRIGHT_BROWSERS_PATH is unset, relative or absolute
PdfCall ==
    /\ pdf_pc = "idle"
    /\ pdf_pc' = "called"
    /\ \E e \in {"unset", "relative", "absolute"} : pdf_env' = e
    /\ UNCHANGED <<pdf_log, pdf_result>>
    /\ UNCHANGED <<pptxVars, uiVars, agentVars>>

\* lines 225-231: the first render_once; a missing-browser error leads to
\* _ensure_playwright_browsers, any other error is raised again
PdfRenderFirst ==
    /\ pdf_pc = "called"
    /\ \E out \in RenderOutcomes :
          /\ pdf_log' = Append(pdf_log, Rendered(out))
          /\ IF out = "pdf" THEN pdf_pc' = "done" /\ pdf_result' = Some("pdf")
             ELSE IF IsMissingBrowser(out) THEN pdf_pc' = "ensure" /\ UNCHANGED pdf_result
             ELSE pdf_pc' = "done" /\ pdf_result' = Some("raises: " \o out)
    /\ UNCHANGED pdf_env
    /\ UNCHANGED <<pptxVars, uiVars, agentVars>>

\* line 230 and lines 166-198: _ensure_playwright_browsers returns when Chromium
\* is found or its installation exits with 0, and raises otherwise
PdfEnsure ==
    /\ pdf_pc = "ensure"
    /\ \E out \in EnsureOutcomes :
          /\ pdf_log' = Append(pdf_log, Ensured(out))
          /\ IF out \in {"found", "installed"}
             THEN pdf_pc' = "retry" /\ UNCHANGED pdf_result
             ELSE pdf_pc' = "done" /\ pdf_result' = Some("raises: " \o out)
    /\ UNCHANGED pdf_env
    /\ UNCHANGED <<pptxVars, uiVars, agentVars>>

\* a second rendering that goes back to the installation on a missing browser
PdfRenderAgainLoops ==
    /\ pdf_pc = "retry"
    /\ \E out \in RenderOutcomes :
          /\ pdf_log' = Append(pdf_log, Rendered(out))
          /\ IF out = "pdf" THEN pdf_pc' = "done" /\ pdf_result' = Some("pdf")
             ELSE IF IsMissingBrowser(out) THEN pdf_pc' = "ensure" /\ UNCHANGED pdf_result
             ELSE pdf_pc' = "done" /\ pdf_result' = Some("raises: " \o out)
    /\ UNCHANGED pdf_env
    /\ UNCHANGED <<pptxVars, uiVars, agentVars>>

\* line 231: the second render_once, inside the except clause: whatever it
\* raises leaves the function
PdfRenderAgain ==
    /\ pdf_pc = "retry"
    /\ \E out \in RenderOutcomes :
          /\ pdf_log' = Append(pdf_log, Rendered(out))
          /\ pdf_result' = IF out = "pdf" THEN Some("pdf") ELSE Some("raises: " \o out)
    /\ pdf_pc' = "done"
    /\ UNCHANGED pdf_env
    /\ UNCHANGED <<pptxVars, uiVars, agentVars>>

NextPdf ==
    \/ PdfCall
    \/ PdfRenderFirst
    \/ PdfEnsure
    \/ PdfRenderAgain

SpecPdf == Init /\ [][NextPdf]_vars

-----------------------------------------------------------------------------
(* What the claims speak of *)

\* parse_pptx_bytes has ended, by a return or by an exception
ParseEnded == ~IsNone(pkg) /\ pc \in {"assembled", "raised", "done"}

\* parse_pptx_bytes has returned a result
Returned == ~IsNone(parsed)

\* the slide part at position i of the sorted slide parts
PartAt(i) == Val(pkg).slides[slide_paths[i]]

\* the children of a slide part's shape tree
TreeOf(doc) == IF IsNone(doc.spTree) THEN <<>> ELSE Val(doc.spTree)

\* the shape at a path of a shape tree
RECURSIVE NodeAt(_, _)
NodeAt(kids, path) ==
    IF Len(path) = 1 THEN kids[path[1]]
    ELSE NodeAt(kids[path[1]].kids, Tail(path))

\* the shape a block of the result comes from
ShapeOf(b) == NodeAt(TreeOf(PartAt(b.slide)), b.src)

\* the offset of a group in pixels: each of x, y floored, 0 where there is none
GroupPx(g) ==
    IF g.pr /\ ~IsNone(g.xfrm) /\ ~IsNone(Val(g.xfrm).off)
    THEN LET off == Val(Val(g.xfrm).off) IN
         [x |-> IF off.x.k = "int" THEN off.x.v \div 9525 ELSE 0,
          y |-> IF off.y.k = "int" THEN off.y.v \div 9525 ELSE 0]
    ELSE [x |-> 0, y |-> 0]

\* the sum of the offsets of the groups above the shape at a path
RECURSIVE AncestorSum(_, _)
AncestorSum(kids, path) ==
    IF Len(path) <= 1 THEN [x |-> 0, y |-> 0]
    ELSE LET g == kids[path[1]]
             rest == AncestorSum(g.kids, Tail(path))
         IN [x |-> GroupPx(g).x + rest.x, y |-> GroupPx(g).y + rest.y]

\* whether the shape has a local offset (a transform with offset and extent)
HasLocalOffset(n) ==
    ~IsNone(n.xfrm) /\ ~IsNone(Val(n.xfrm).off) /\ ~IsNone(Val(n.xfrm).ext)

\* whether a shape tree holds a text shape without p:spPr
RECURSIVE HasSpWithoutSpPr(_)
HasSpWithoutSpPr(kids) ==
    \E i \in DOMAIN kids :
        \/ kids[i].tag = "sp" /\ ~kids[i].pr
        \/ kids[i].tag = "grpSp" /\ HasSpWithoutSpPr(kids[i].kids)

\* the paths of the text shapes of a tree that have p:spPr and a non-empty paragraph
RECURSIVE TextShapePaths(_, _)
TextShapePaths(kids, path) ==
    UNION { IF kids[i].tag = "grpSp" THEN TextShapePaths(kids[i].kids, Append(path, i))
            ELSE IF /\ kids[i].tag = "sp" /\ kids[i].pr /\ ~IsNone(kids[i].tx)
                    /\ \E q \in DOMAIN Val(kids[i].tx) :
                           \E c \in DOMAIN Val(kids[i].tx)[q].segs :
                              Val(kids[i].tx)[q].segs[c] # ""
                 THEN { Append(path, i) }
                 ELSE {}
            : i \in DOMAIN kids }

\* how many groups are nested in a shape tree
RECURSIVE GroupDepth(_)
GroupDepth(kids) ==
    LET ds == { 1 + GroupDepth(kids[i].kids) : i \in { j \in DOMAIN kids : kids[j].tag = "grpSp" } }
    IN IF ds = {} THEN 0 ELSE CHOOSE d \in ds : \A e \in ds : e <= d

\* whether a slide part nests groups deeper than the stack has room for
TooDeep(doc) == GroupDepth(TreeOf(doc)) >= StackLimit

\* the positions of the slide parts whose XML does not parse
MalformedAt == { i \in DOMAIN slide_paths : ~PartAt(i).ok }

\* the blocks of the result that belong to slide i
BlocksOfSlide(i) ==
    SelectSeq(Val(parsed).blocks, LAMBDA b : b.slide = i)

\* a block's top and left as the order reads them: a missing coordinate is 0
TopOf(b) == IF IsNone(b.y) THEN 0 ELSE Val(b.y)
LeftOf(b) == IF IsNone(b.x) THEN 0 ELSE Val(b.x)

\* document order of two paths (neither a prefix of the other)
RECURSIVE PathBefore(_, _)
PathBefore(p, q) ==
    /\ p # <<>> /\ q # <<>>
    /\ \/ p[1] < q[1]
       \/ p[1] = q[1] /\ PathBefore(Tail(p), Tail(q))

\* the depth-first, document-order walk yields block a before block b
WalkedBefore(a, b) ==
    \/ PathBefore(a.src, b.src)
    \/ a.src = b.src /\ a.par < b.par

-----------------------------------------------------------------------------
(* C1..C10 *)

\* C1: when exactly one slide part of a package does not parse (and nothing else
\* fails), parse_pptx_bytes returns as many slides entries as there are slide
\* parts, the malformed slide's entry without title and blocks, every other
\* slide with its own title and blocks.
C1_SlideFailureIsolated ==
    (/\ ParseEnded /\ Val(pkg).zip
     /\ Cardinality(MalformedAt) = 1
     /\ \A i \in DOMAIN slide_paths : ~HasSpWithoutSpPr(TreeOf(PartAt(i)))
     /\ \A i \in DOMAIN slide_paths : ~TooDeep(PartAt(i)))
    => /\ Returned
       /\ Len(Val(parsed).slides) = Len(Val(pkg).names)
       /\ \A i \in DOMAIN slide_paths :
             IF i \in MalformedAt
             THEN Val(parsed).slides[i].title = <<>> /\ BlocksOfSlide(i) = <<>>
             ELSE /\ Val(parsed).slides[i].title = TitleOf(AllSp(TreeOf(PartAt(i))))
                  /\ \A path \in TextShapePaths(TreeOf(PartAt(i)), <<>>) :
                        \E k \in DOMAIN BlocksOfSlide(i) : BlocksOfSlide(i)[k].src = path

\* C2: the extraction fails when the bytes are no zip container or the container
\* holds no slide part, and no result has an empty slides list.
C2_InvalidPackageFails ==
    ParseEnded =>
        /\ (~Val(pkg).zip \/ Val(pkg).names = <<>>) => (raised # "none" /\ ~Returned)
        /\ Returned => Val(parsed).slides # <<>>

\* C3: a shape whose geometry cannot be parsed (a text shape without p:spPr, an
\* offset that is no number) does not abort the extraction: when every slide
\* part is well-formed XML a result is returned, and it holds the blocks of
\* every other text shape.
C3_BadShapeSkipped ==
    (/\ ParseEnded /\ Val(pkg).zip /\ MalformedAt = {}
     /\ \A i \in DOMAIN slide_paths : ~TooDeep(PartAt(i)))
    => /\ Returned
       /\ \A i \in DOMAIN slide_paths :
             \A path \in TextShapePaths(TreeOf(PartAt(i)), <<>>) :
                \E k \in DOMAIN BlocksOfSlide(i) : BlocksOfSlide(i)[k].src = path

\* C4: the slides of the result follow the slide parts in ascending part number
\* and carry the indices 1..N, N the number of slide parts.
C4_SlidesInPartOrder ==
    Returned =>
        LET sl == Val(parsed).slides IN
        /\ Len(sl) = Len(Val(pkg).names)
        /\ Len(slide_paths) = Len(sl)
        /\ Range(slide_paths) = Range(Val(pkg).names)
        /\ \A i, j \in DOMAIN slide_paths :
              i < j => PathKey(slide_paths[i]) < PathKey(slide_paths[j])
        /\ \A i \in DOMAIN sl :
              /\ sl[i].slide = i
              /\ sl[i].title = TitleOf(AllSp(TreeOf(Val(pkg).slides[slide_paths[i]])))

\* C4 witness: a result of three slides whose parts the package lists out of
\* order, slide10.xml before slide2.xml, and whose slides differ
C4_Witness ==
    /\ Returned
    /\ Len(Val(parsed).slides) = 3
    /\ Val(pkg).names[1] = <<1, 0>> /\ Val(pkg).names[2] = <<2>>
    /\ slide_paths[2] = <<2>> /\ slide_paths[3] = <<1, 0>>
    /\ Val(parsed).slides[2].title # Val(parsed).slides[3].title

\* C5: in the result the blocks of one slide are in ascending (top, left) order,
\* a missing coordinate read as 0.
C5_BlocksSortedTopLeft ==
    Returned =>
        LET bs == Val(parsed).blocks IN
        \A i, j \in DOMAIN bs :
            (i < j /\ bs[i].slide = bs[j].slide) =>
                \/ TopOf(bs[i]) < TopOf(bs[j])
                \/ TopOf(bs[i]) = TopOf(bs[j]) /\ LeftOf(bs[i]) <= LeftOf(bs[j])

\* C5 witness: the sort moved a block in front of one the walk yielded earlier,
\* once by its top and once, the tops equal, by its left
C5_Witness ==
    /\ Returned
    /\ LET bs == Val(parsed).blocks IN
       /\ \E i, j \in DOMAIN bs :
             /\ i < j /\ bs[i].slide = bs[j].slide
             /\ WalkedBefore(bs[j], bs[i])
             /\ ~IsNone(bs[i].y) /\ ~IsNone(bs[j].y) /\ Val(bs[i].y) < Val(bs[j].y)
             /\ ~IsNone(bs[i].x) /\ ~IsNone(bs[j].x) /\ Val(bs[i].x) > Val(bs[j].x)

\* C6: two blocks of one slide with the same top and left stay in the order in
\* which the depth-first, document-order walk yielded them.
C6_TiesKeepWalkOrder ==
    Returned =>
        LET bs == Val(parsed).blocks IN
        \A i, j \in DOMAIN bs :
            (/\ i < j /\ bs[i].slide = bs[j].slide
             /\ TopOf(bs[i]) = TopOf(bs[j]) /\ LeftOf(bs[i]) = LeftOf(bs[j]))
            => WalkedBefore(bs[i], bs[j])

\* C6 witness: two blocks at the same resolved (x, y), one of them inside a group,
\* behind a block the sort moved
C6_Witness ==
    /\ Returned
    /\ LET bs == Val(parsed).blocks IN
       \E i, j \in DOMAIN bs :
           /\ i < j /\ bs[i].slide = bs[j].slide
           /\ ~IsNone(bs[i].x) /\ ~IsNone(bs[i].y)
           /\ bs[i].x = bs[j].x /\ bs[i].y = bs[j].y
           /\ Len(bs[i].src) # Len(bs[j].src)

C8_NoLocalOffsetInheritsGroup ==
    Returned =>
        LET bs == Val(parsed).blocks IN
        \A i \in DOMAIN bs :
            LET anc == AncestorSum(TreeOf(PartAt(bs[i].slide)), bs[i].src) IN
            (Len(bs[i].src) > 1 /\ ~HasLocalOffset(ShapeOf(bs[i]))) =>
                bs[i].x = Some(anc.x) /\ bs[i].y = Some(anc.y)

\* C9: every child is visited with the sum of the offsets of the groups above it
\* and of nothing else: a group's offset reaches its descendants only, never a
\* sibling that follows it.
C9_ChildrenSeeOwnAncestorsOnly ==
    \A i \in DOMAIN visits :
        \A k \in DOMAIN visits[i] :
            LET v == visits[i][k]
                anc == AncestorSum(TreeOf(PartAt(i)), v.path)
            IN v.gx = anc.x /\ v.gy = anc.y

\* C9 witness: a shape that follows a group with a non-zero offset was visited,
\* and so was a child of that group
C9_Witness ==
    \E i \in DOMAIN visits :
        \E k, m \in DOMAIN visits[i] :
            LET v == visits[i][k]
                c == visits[i][m]
                tree == TreeOf(PartAt(i))
            IN /\ Len(v.path) = 1 /\ v.path[1] > 1
               /\ tree[v.path[1] - 1].tag = "grpSp"
               /\ GroupPx(tree[v.path[1] - 1]).x > 0
               /\ c.path = <<v.path[1] - 1, 1>>
               /\ c.gx > 0 /\ v.gx = 0

\* C10: emu_to_px(9525) = 1, emu_to_px(0) = 0, the conversion is monotonic
\* non-decreasing and never rounds up, negative lengths included.
C10_EmuToPx ==
    ~IsNone(px_a) =>
        /\ emu_a = 9525 => Val(px_a) = 1
        /\ emu_a = 0 => Val(px_a) = 0
        /\ emu_a <= emu_b => Val(px_a) <= Val(px_b)
        /\ Val(px_a) * 9525 <= emu_a
        /\ emu_a < (Val(px_a) + 1) * 9525

\* C10 witness: a negative length that is no whole number of pixels, converted
\* together with a greater one
C10_Witness ==
    /\ ~IsNone(px_a)
    /\ emu_a < 0 /\ emu_a % 9525 # 0
    /\ emu_a < emu_b
    /\ Val(px_a) < Val(px_b)

-----------------------------------------------------------------------------
(* C11..C20 *)

\* the paths of the shapes of one tag in a tree, groups descended
RECURSIVE PathsOfTag(_, _, _)
PathsOfTag(kids, path, tag) ==
    UNION { (IF kids[i].tag = tag THEN { Append(path, i) } ELSE {})
            \cup (IF kids[i].tag = "grpSp"
                  THEN PathsOfTag(kids[i].kids, Append(path, i), tag) ELSE {})
            : i \in DOMAIN kids }

\* the blocks of the result that come from the shape at a path of slide i
BlocksFrom(i, path) ==
    SelectSeq(Val(parsed).blocks, LAMBDA b : b.slide = i /\ b.src = path)

\* the a:p's of a txBody that may be absent
ParasOf(tx) == IF IsNone(tx) THEN <<>> ELSE Val(tx)

\* whether a paragraph has text that is not blank
HasText(a_p) == \E c \in DOMAIN a_p.segs : a_p.segs[c] # ""

\* the positions of the paragraphs with text
TextParas(paras) == { q \in DOMAIN paras : HasText(paras[q]) }

\* a paragraph's text as a trimmed paragraph gives it: from its first to its last
\* segment that is not blank
Trimmed(a_p) ==
    LET idx == { c \in DOMAIN a_p.segs : a_p.segs[c] # "" } IN
    IF idx = {} THEN <<>>
    ELSE SubSeq(a_p.segs, CHOOSE c \in idx : \A d \in idx : c <= d,
                          CHOOSE c \in idx : \A d \in idx : d <= c)

\* the lines of the paragraphs with text, one after the other
RECURSIVE AllLines(_)
AllLines(paras) ==
    IF paras = <<>> THEN <<>> ELSE Trimmed(Head(paras)) \o AllLines(Tail(paras))

CellHasText(a_tc) == TextParas(ParasOf(a_tc)) # {}

\* the positions of the rows of a table that have a cell with text
RowsWithText(tbl) == { r \in DOMAIN tbl : \E c \in DOMAIN tbl[r] : CellHasText(tbl[r][c]) }

\* C12: a table row whose every cell is empty is dropped: the table block has
\* one row per source row that has a cell with text and no row of empty cells
\* only, and raw_text has no line of such a row, not even a blank one.
C12_EmptyRowsDropped ==
    Returned =>
        /\ \A k \in DOMAIN Val(parsed).blocks :
              LET b == Val(parsed).blocks[k] IN
              b.type = "table" =>
                 /\ Len(b.rows) = Cardinality(RowsWithText(Val(ShapeOf(b).tbl)))
                 /\ \A r \in DOMAIN b.rows : \E c \in DOMAIN b.rows[r] : b.rows[r][c] # <<>>
        /\ \A l \in DOMAIN Val(parsed).raw_text :
              Val(parsed).raw_text[l].k = "row" => Val(parsed).raw_text[l].cells # <<>>

\* the title placeholders of a slide that have text, in document order
TitledShapes(doc) ==
    SelectSeq(AllSp(TreeOf(doc)),
              LAMBDA sp : sp.ph \in {"title", "ctrTitle"} /\ TextParas(ParasOf(sp.tx)) # {})

\* the first line of a shape's text: the first line of its first paragraph with text
FirstLine(sp) ==
    LET paras == ParasOf(sp.tx)
        q == CHOOSE a \in TextParas(paras) : \A b \in TextParas(paras) : a <= b
    IN <<Trimmed(paras[q])[1]>>

\* C13: when a slide has a title or centre-title placeholder with text, the
\* slide's title is the first line of that placeholder's text (of the first such
\* placeholder), whatever other shapes the slide has, an earlier title
\* placeholder without text included.
C13_TitleFromPlaceholder ==
    Returned =>
        \A i \in DOMAIN slide_paths :
           LET ts == TitledShapes(PartAt(i)) IN
           ts # <<>> => Val(parsed).slides[i].title = <<FirstLine(ts[1])>>

\* the text shapes of a slide that have text, in document order
ShapesWithText(doc) ==
    SelectSeq(AllSp(TreeOf(doc)), LAMBDA sp : TextParas(ParasOf(sp.tx)) # {})

\* C14: when a slide has text shapes with text but no title placeholder with
\* text, the slide has a title: the line of the text shape with the highest font
\* size, cut at a bounded length, which is a text that is not empty.
C14_TitleFromLargestText ==
    Returned =>
        \A i \in DOMAIN slide_paths :
           (ShapesWithText(PartAt(i)) # <<>> /\ TitledShapes(PartAt(i)) = <<>>)
           => Val(parsed).slides[i].title # <<>>

\* C15: a slide without text shapes has no title, and its slides entry reports
\* that as null, not as an empty string.
C15_NoTitleIsNull ==
    Returned =>
        \A i \in DOMAIN slide_paths :
           AllSp(TreeOf(PartAt(i))) = <<>>
           => TitleValue(Val(parsed).slides[i].title).null

\* C16: every block carries a column, "left" or "right": left when its
\* horizontal centre x + w/2 is at or left of 45% of the slide width (taken as
\* 1000 px, as in the claim's example), right otherwise, and right when its
\* geometry is not known.
C16_BlockHasColumn ==
    Returned =>
        \A k \in DOMAIN Val(parsed).blocks :
           LET b == Val(parsed).blocks[k] IN
           /\ "column" \in DOMAIN b
           /\ b.column \in {"left", "right"}
           /\ (IsNone(b.x) \/ IsNone(b.w)) => b.column = "right"
           /\ (~IsNone(b.x) /\ ~IsNone(b.w)) =>
                 (b.column = "left" <=> (2 * Val(b.x) + Val(b.w)) * 100 <= 2 * 45 * 1000)

\* whether a graphic frame has diagram data, and the positions of its texts
\* that are not blank
IsDiagram(n) == ~IsNone(n.gd) /\ Val(n.gd).diagram
DiagramTextAt(n) ==
    IF IsDiagram(n) THEN { t \in DOMAIN Val(n.gd).texts : Val(n.gd).texts[t] # "" } ELSE {}

\* nothing but a slide part that is no XML, a text shape without p:spPr or
\* groups nested too deep makes the parse of a zip container raise
NothingRaises ==
    (/\ ParseEnded /\ Val(pkg).zip /\ MalformedAt = {}
     /\ \A i \in DOMAIN slide_paths : ~HasSpWithoutSpPr(TreeOf(PartAt(i)))
     /\ \A i \in DOMAIN slide_paths : ~TooDeep(PartAt(i)))
    => Returned

RECURSIVE OtherPaths(_, _)
OtherPaths(kids, path) ==
    UNION { (IF kids[i].tag \notin {"grpSp", "sp", "graphicFrame"}
             THEN { Append(path, i) } ELSE {})
            \cup (IF kids[i].tag = "grpSp"
                  THEN OtherPaths(kids[i].kids, Append(path, i)) ELSE {})
            : i \in DOMAIN kids }

\* C18: a shape that is neither a text shape, nor a table or graphic frame, nor a
\* group (a picture) is skipped silently: it raises no error, no block of the
\* result comes from it, and the shapes before and after it are visited and
\* give their blocks.
C18_OtherShapesSkipped ==
    /\ NothingRaises
    /\ Returned =>
          \A i \in DOMAIN slide_paths :
             LET kids == TreeOf(PartAt(i)) IN
             /\ \A path \in OtherPaths(kids, <<>>) : BlocksFrom(i, path) = <<>>
             /\ OtherPaths(kids, <<>>) # {} =>
                   /\ \A path \in TextShapePaths(kids, <<>>) : BlocksFrom(i, path) # <<>>
                   /\ { visits[i][v].path : v \in DOMAIN visits[i] }
                         = UNION { PathsOfTag(kids, <<>>, t)
                                   : t \in {"grpSp", "sp", "graphicFrame", "pic"} }

\* C18 witness: a result for a slide with a picture between two text shapes,
\* the one after the picture with blocks in the result
C18_Witness ==
    /\ Returned
    /\ \E i \in DOMAIN slide_paths :
          LET kids == TreeOf(PartAt(i)) IN
          \E k \in DOMAIN kids :
             /\ kids[k].tag = "pic"
             /\ k > 1 /\ k < Len(kids)
             /\ kids[k + 1].tag = "sp"
             /\ BlocksFrom(i, <<k + 1>>) # <<>>
             /\ BlocksFrom(i, <<k>>) = <<>>

\* whether a text is one a trimmed paragraph with text gives: it is not empty
\* and neither starts nor ends with a blank line
IsTrimmedText(t) == t # <<>> /\ t[1] # "" /\ t[Len(t)] # ""

\* C19: no paragraph whose trimmed text is empty is emitted: the text of every
\* paragraph block of a result (from a text shape, a diagram or a frame's own
\* text) is trimmed and not empty, and so is every paragraph text in the cells
\* of every table block.
C19_NoEmptyParagraph ==
    Returned =>
        \A k \in DOMAIN Val(parsed).blocks :
           LET b == Val(parsed).blocks[k] IN
           IF b.type = "paragraph" THEN IsTrimmedText(b.text)
           ELSE \A r \in DOMAIN b.rows : \A c \in DOMAIN b.rows[r] :
                   \A q \in DOMAIN b.rows[r][c] : IsTrimmedText(b.rows[r][c][q])

\* C19 witness: a result for a slide where a text shape, a table cell, a diagram
\* and a frame's own text each have a blank paragraph (or text) beside one with
\* text, and each has given a block
C19_Witness ==
    /\ Returned
    /\ \E i \in DOMAIN slide_paths :
          LET kids == TreeOf(PartAt(i))
              node(p) == NodeAt(kids, p)
              blank(paras) == \E q \in DOMAIN paras : ~HasText(paras[q])
          IN /\ \E p \in PathsOfTag(kids, <<>>, "sp") :
                   blank(ParasOf(node(p).tx)) /\ BlocksFrom(i, p) # <<>>
             /\ \E p \in PathsOfTag(kids, <<>>, "graphicFrame") :
                   /\ ~IsNone(node(p).tbl)
                   /\ \E r \in DOMAIN Val(node(p).tbl) : \E c \in DOMAIN Val(node(p).tbl)[r] :
                         /\ blank(ParasOf(Val(node(p).tbl)[r][c]))
                         /\ CellHasText(Val(node(p).tbl)[r][c])
                   /\ BlocksFrom(i, p) # <<>>
             /\ \E p \in PathsOfTag(kids, <<>>, "graphicFrame") :
                   /\ IsNone(node(p).tbl) /\ IsDiagram(node(p))
                   /\ \E t \in DOMAIN Val(node(p).gd).texts : Val(node(p).gd).texts[t] = ""
                   /\ BlocksFrom(i, p) # <<>>
             /\ \E p \in PathsOfTag(kids, <<>>, "graphicFrame") :
                   /\ IsNone(node(p).tbl) /\ ~IsDiagram(node(p))
                   /\ blank(ParasOf(node(p).tx)) /\ BlocksFrom(i, p) # <<>>

\* where the part of raw_text that belongs to slide i starts (its header) and ends
HeaderPos(rt, i) == CHOOSE l \in DOMAIN rt : rt[l].k = "slide" /\ rt[l].n = i
SectionEnd(rt, i, n) == IF i < n THEN HeaderPos(rt, i + 1) - 1 ELSE Len(rt)

\* the positions of the notes of slide i in raw_text
NotesAt(rt, i, n) ==
    { l \in (HeaderPos(rt, i) + 1)..SectionEnd(rt, i, n) : rt[l].k = "notes" }

\* the lines a text of several paragraphs takes once its paragraphs are joined
\* by newlines: those of each paragraph, one after the other
RECURSIVE TextLines(_)
TextLines(text) == IF text = <<>> THEN <<>> ELSE Head(text) \o TextLines(Tail(text))

\* every slide of the result has its header in raw_text, in slide order
HeadersInOrder(rt, n) ==
    /\ \A i \in 1..n : \E l \in DOMAIN rt : rt[l].k = "slide" /\ rt[l].n = i
    /\ \A i \in 1..n : \A l \in DOMAIN rt :
          (rt[l].k = "slide" /\ rt[l].n = i) => l = HeaderPos(rt, i)
    /\ \A i, j \in 1..n : i < j => HeaderPos(rt, i) < HeaderPos(rt, j)

\* C20 (as stated): in raw_text the notes of a slide that has notes are one
\* single line with the prefix "Notes:", after every block line of the slide and
\* before anything of the next slide, also when the notes have several
\* paragraphs.
C20_NotesSingleLine ==
    Returned =>
        LET rt == Val(parsed).raw_text
            sl == Val(parsed).slides
        IN /\ HeadersInOrder(rt, Len(sl))
           /\ \A i \in DOMAIN sl :
                 sl[i].notes # <<>> =>
                    /\ NotesAt(rt, i, Len(sl)) = { SectionEnd(rt, i, Len(sl)) }
                    /\ LET line == rt[SectionEnd(rt, i, Len(sl))] IN
                       /\ line.prefix = "Notes:"
                       /\ Len(TextLines(line.text)) = 1

\* C20 (amended): in raw_text the notes of a slide that has notes come after
\* every block line of the slide and before anything of the next slide, with
\* the prefix "[NOTES] " before their first line; notes of several paragraphs
\* take one line per line of their text, only the first prefixed; a slide
\* without notes has no notes line.
C20_NotesLast ==
    Returned =>
        LET rt == Val(parsed).raw_text
            sl == Val(parsed).slides
        IN /\ HeadersInOrder(rt, Len(sl))
           /\ \A i \in DOMAIN sl :
                 IF sl[i].notes = <<>> THEN NotesAt(rt, i, Len(sl)) = {}
                 ELSE /\ NotesAt(rt, i, Len(sl)) = { SectionEnd(rt, i, Len(sl)) }
                      /\ LET line == rt[SectionEnd(rt, i, Len(sl))] IN
                         /\ line.prefix = "[NOTES] "
                         /\ line.text = sl[i].notes
                         /\ Len(TextLines(line.text)) >= 1
                         /\ \A q \in DOMAIN line.text : IsTrimmedText(line.text[q])

\* C20 witness: a result whose first slide has blocks and notes of two
\* paragraphs (three lines), followed by a second slide with blocks
C20_Witness ==
    /\ Returned
    /\ Len(Val(parsed).slides) >= 2
    /\ Len(Val(parsed).slides[1].notes) = 2
    /\ Len(TextLines(Val(parsed).slides[1].notes)) = 3
    /\ BlocksOfSlide(1) # <<>> /\ BlocksOfSlide(2) # <<>>
    /\ NotesAt(Val(parsed).raw_text, 1, Len(Val(parsed).slides)) # {}

-----------------------------------------------------------------------------
(* C21..C27 *)

\* C21: raw_text is, in slide order, each slide's section: one line that carries
\* the slide's number and its title, there only when the slide has a title, then
\* the slide's block lines, each paragraph line tagged with its column, "[L]" or
\* "[R]"; a blank line separates two consecutive sections.
C21_RawTextSections ==
    Returned =>
        LET rt == Val(parsed).raw_text
            sl == Val(parsed).slides
        IN /\ \A i \in DOMAIN sl :
                 LET heads == { l \in DOMAIN rt : rt[l].k = "slide" /\ rt[l].n = i } IN
                 IF sl[i].title = <<>> THEN heads = {}
                 ELSE /\ Cardinality(heads) = 1
                      /\ \A l \in heads : "title" \in DOMAIN rt[l] /\ rt[l].title = sl[i].title
           /\ \A l \in DOMAIN rt :
                 rt[l].k = "para" => ("tag" \in DOMAIN rt[l] /\ rt[l].tag \in {"[L]", "[R]"})
           /\ \A l \in DOMAIN rt :
                 (rt[l].k = "slide" /\ l > 1) => rt[l - 1].k = "blank"

\* the well-formed e-mail addresses among the line texts of the inputs
Emails == { "john@example.com" }

\* the e-mail addresses that occur in a raw text
EmailsIn(rt) ==
    { rt[l].text : l \in { m \in DOMAIN rt : rt[m].k = "para" /\ rt[m].text \in Emails } }

\* C22: the result has hints computed from raw_text, and every well-formed
\* e-mail address that occurs in raw_text is in hints.emails, once (a deck whose
\* only address is john@example.com has hints.emails = ["john@example.com"]).
C22_HintsFromRawText ==
    Returned =>
        /\ "hints" \in DOMAIN Val(parsed)
        /\ Range(Val(parsed).hints.emails) = EmailsIn(Val(parsed).raw_text)
        /\ Len(Val(parsed).hints.emails) = Cardinality(EmailsIn(Val(parsed).raw_text))

\* the texts of the paragraphs with text of the notes part numbered n, nothing
\* when the package has no such part or its XML does not parse
RECURSIVE TrimmedTexts(_)
TrimmedTexts(paras) ==
    IF paras = <<>> THEN <<>>
    ELSE (IF HasText(Head(paras)) THEN <<Trimmed(Head(paras))>> ELSE <<>>)
         \o TrimmedTexts(Tail(paras))

NotesOfPart(n) ==
    IF n \in DOMAIN Val(pkg).notes /\ Val(pkg).notes[n].ok
    THEN TrimmedTexts(Val(pkg).notes[n].paras)
    ELSE <<>>

\* C25: the notes of the i-th slide of the result are those of the notes part
\* numbered i, whatever the number of the slide's own part; without such a part,
\* or with one that does not parse, the notes are empty, and the slide is in the
\* result all the same.
C25_NotesByPosition ==
    Returned =>
        /\ Len(Val(parsed).slides) = Len(slide_paths)
        /\ \A i \in DOMAIN Val(parsed).slides : Val(parsed).slides[i].notes = NotesOfPart(i)

\* C25 witness: a result of two slides whose parts are slide2.xml and
\* slide10.xml: the first has the notes of notesSlide1.xml, the second those of
\* the unparsable notesSlide2.xml (none), and notesSlide3.xml, which has text,
\* is attached to no slide
C25_Witness ==
    /\ Returned
    /\ slide_paths = << <<2>>, <<1, 0>> >>
    /\ NotesOfPart(1) # <<>> /\ NotesOfPart(3) # <<>> /\ NotesOfPart(1) # NotesOfPart(3)
    /\ 2 \in DOMAIN Val(pkg).notes /\ ~Val(pkg).notes[2].ok
    /\ Val(parsed).slides[1].notes = NotesOfPart(1)
    /\ Val(parsed).slides[2].notes = <<>>
    /\ \A i \in DOMAIN Val(parsed).slides : Val(parsed).slides[i].notes # NotesOfPart(3)

\* the lines of raw_text that belong to slide i, after its header
SectionOf(rt, i, n) == SubSeq(rt, HeaderPos(rt, i) + 1, SectionEnd(rt, i, n))

\* C26: the text of a title placeholder is reported twice: a slide that has a
\* title has a title placeholder whose paragraph blocks, in paragraph order,
\* hold the very texts of the title, and in raw_text the slide's section has the
\* title on its title line and every line of the title among its block lines.
C26_TitleReportedTwice ==
    Returned =>
        LET rt == Val(parsed).raw_text
            sl == Val(parsed).slides
        IN \A i \in DOMAIN sl :
              sl[i].title # <<>> =>
                 /\ \E path \in PathsOfTag(TreeOf(PartAt(i)), <<>>, "sp") :
                       /\ NodeAt(TreeOf(PartAt(i)), path).ph \in {"title", "ctrTitle"}
                       /\ [k \in DOMAIN BlocksFrom(i, path) |-> BlocksFrom(i, path)[k].text]
                             = sl[i].title
                 /\ LET sec == SectionOf(rt, i, Len(sl)) IN
                    /\ sec[1].k = "title" /\ sec[1].text = sl[i].title
                    /\ \A line \in Range(TextLines(sl[i].title)) :
                          line # "" =>
                             \E l \in DOMAIN sec : sec[l].k = "para" /\ sec[l].text = line

\* C26 witness: a result with a slide whose title is of two lines and is also
\* the text of a block of the slide, the title placeholder not being the first
\* shape of the slide
C26_Witness ==
    /\ Returned
    /\ \E i \in DOMAIN Val(parsed).slides :
          /\ Len(TextLines(Val(parsed).slides[i].title)) = 2
          /\ \E k \in DOMAIN BlocksOfSlide(i) :
                /\ <<BlocksOfSlide(i)[k].text>> = Val(parsed).slides[i].title
                /\ BlocksOfSlide(i)[k].src # <<1>>
                /\ ShapeOf(BlocksOfSlide(i)[k]).ph = "title"

\* whether a block lacks a coordinate
NoGeometry(b) == IsNone(b.x) \/ IsNone(b.y)

\* every paragraph with text of every text shape whose geometry is not resolved
\* has its block in the result and its lines in the slide's section of raw_text
GeometryLessKept ==
    LET rt == Val(parsed).raw_text
        sl == Val(parsed).slides
    IN \A i \in DOMAIN sl :
          \A path \in PathsOfTag(TreeOf(PartAt(i)), <<>>, "sp") :
             LET n == NodeAt(TreeOf(PartAt(i)), path)
                 paras == ParasOf(n.tx)
             IN (IsNone(xfrm_rect(n).x) \/ IsNone(xfrm_rect(n).y)) =>
                   \A q \in TextParas(paras) :
                      /\ \E k \in DOMAIN BlocksFrom(i, path) :
                            /\ BlocksFrom(i, path)[k].par = q
                            /\ NoGeometry(BlocksFrom(i, path)[k])
                      /\ \A c \in DOMAIN paras[q].segs :
                            paras[q].segs[c] # "" =>
                               \E l \in DOMAIN SectionOf(rt, i, Len(sl)) :
                                  /\ SectionOf(rt, i, Len(sl))[l].k = "para"
                                  /\ SectionOf(rt, i, Len(sl))[l].text = paras[q].segs[c]

\* C27 (as stated): a block whose x or y is null is not dropped (it is in the
\* blocks of the result and in raw_text), and it comes before every block of
\* its slide that has a positive top coordinate.
C27_NullGeometryFirst ==
    Returned =>
        /\ GeometryLessKept
        /\ \A k, l \in DOMAIN Val(parsed).blocks :
              LET a == Val(parsed).blocks[k]
                  b == Val(parsed).blocks[l]
              IN (/\ a.slide = b.slide /\ NoGeometry(a)
                  /\ ~IsNone(b.y) /\ Val(b.y) > 0) => k < l

\* C27 (amended): a block whose x or y is null is not dropped, and it is
\* ordered with each missing coordinate read as 0: one whose top is null comes
\* before every block of its slide that has a positive top coordinate, one
\* whose left only is null stands by its top and, among equal tops, before
\* every block with a positive left.
C27_NullGeometryAsZero ==
    Returned =>
        /\ GeometryLessKept
        /\ \A k, l \in DOMAIN Val(parsed).blocks :
              LET a == Val(parsed).blocks[k]
                  b == Val(parsed).blocks[l]
              IN (a.slide = b.slide /\ NoGeometry(a)) =>
                    /\ (IsNone(a.y) /\ ~IsNone(b.y) /\ Val(b.y) > 0) => k < l
                    /\ (~IsNone(a.y) /\ ~IsNone(b.y) /\ Val(a.y) < Val(b.y)) => k < l
                    /\ (~IsNone(a.y) /\ ~IsNone(b.y) /\ Val(a.y) > Val(b.y)) => l < k
                    /\ (/\ IsNone(a.x) /\ TopOf(a) = TopOf(b)
                        /\ ~IsNone(b.x) /\ Val(b.x) > 0) => k < l

\* C27 witness: a result in which a block without geometry stands before a
\* block with a positive top whose shape is earlier in the slide, and a block
\* whose left only is null stands after a block with a smaller positive top
C27_Witness ==
    /\ Returned
    /\ \E k, l \in DOMAIN Val(parsed).blocks :
          LET a == Val(parsed).blocks[k]
              b == Val(parsed).blocks[l]
          IN /\ a.slide = b.slide /\ k < l
             /\ IsNone(a.x) /\ IsNone(a.y)
             /\ ~IsNone(b.y) /\ Val(b.y) > 0
             /\ PathBefore(b.src, a.src)
    /\ \E k, l \in DOMAIN Val(parsed).blocks :
          LET a == Val(parsed).blocks[k]
              b == Val(parsed).blocks[l]
          IN /\ a.slide = b.slide /\ l < k
             /\ IsNone(a.x) /\ ~IsNone(a.y)
             /\ ~IsNone(b.y) /\ Val(b.y) > 0

\* C24: the walk has a recursion limit of its own: when the groups of a slide
\* are nested deeper than the limit (and nothing else fails), the extraction
\* still ends with a result that has an entry for every slide part, the deep
\* slide's entry empty (no title, no blocks), every other slide with the blocks
\* of its text shapes.
C24_DeepNestingIsolated ==
    (/\ ParseEnded /\ Val(pkg).zip /\ MalformedAt = {}
     /\ \A i \in DOMAIN slide_paths : ~HasSpWithoutSpPr(TreeOf(PartAt(i)))
     /\ \E i \in DOMAIN slide_paths : TooDeep(PartAt(i)))
    => /\ Returned
       /\ Len(Val(parsed).slides) = Len(Val(pkg).names)
       /\ \A i \in DOMAIN slide_paths :
             IF TooDeep(PartAt(i))
             THEN Val(parsed).slides[i].title = <<>> /\ BlocksOfSlide(i) = <<>>
             ELSE \A path \in TextShapePaths(TreeOf(PartAt(i)), <<>>) :
                     BlocksFrom(i, path) # <<>>

-----------------------------------------------------------------------------
(* C28..C30 *)

\* whether an absolute path is the directory or lies beneath it
Beneath(path, dir) == Len(dir) <= Len(path) /\ SubSeq(path, 1, Len(dir)) = dir

\* C28: the static-file handler serves no file from outside the UI base
\* directory: the file of a 200 response is one whose resolved absolute path
\* lies beneath the base directory, also for a route parameter that resolves to
\* a sibling directory whose name starts with the base directory's name.
C28_NoFileOutsideBase ==
    (ui_pc = "done" /\ Val(ui_response).status = 200)
    => Beneath(Val(ui_response).body, BASE_DIR)

\* whether a result of _post_json is status 200 with a JSON object
Ok200(r) == ~IsNone(r) /\ ~Val(r).raises /\ Val(r).status = 200 /\ IsDict(Val(r).json)

\* whether a sequence is the beginning of another
IsPrefixOf(a, b) == Len(a) <= Len(b) /\ SubSeq(b, 1, Len(a)) = a

\* C29: in the normalize_only flow the steps are attempted in the order upload,
\* extract, normalize, each once and only after the one before succeeded: the
\* extractor is not called unless the upload gave a SAS URL, the normalizer not
\* unless the extractor answered 200 with a JSON object; the response is 200
\* (with the cv) only after the normalizer answered 200 with a JSON object, and
\* anything that failed gives a response that is not 200.
C29_StepsInOrder ==
    (~IsNone(ag_req) /\ IsNormalizeOnly(Val(ag_req))) =>
        /\ IsPrefixOf(ag_calls, <<"upload", "extract", "normalize">>)
        /\ Len(ag_calls) >= 2 => ~IsNone(ag_sas)
        /\ Len(ag_calls) >= 3 => Ok200(ag_r1)
        /\ ag_pc = "done" =>
              /\ Val(ag_response).status = 200 =>
                    (Len(ag_calls) = 3 /\ Ok200(ag_r1) /\ Ok200(ag_r2)
                     /\ Val(ag_response).body = "cv")
              /\ (IsNone(ag_sas) \/ ~Ok200(ag_r1) \/ ~Ok200(ag_r2))
                    => Val(ag_response).status # 200

\* C29 witness: a normalize_only request answered with 200 after the three steps
C29_Witness ==
    /\ ag_pc = "done"
    /\ IsNormalizeOnly(Val(ag_req))
    /\ ag_calls = <<"upload", "extract", "normalize">>
    /\ Val(ag_response).status = 200

\* the renderings attempted so far
Renderings == SelectSeq(pdf_log, LAMBDA e : e.step = "render")

====
